---- MODULE Spec2Model ----
(***************************************************************************)
(* Craggy: a Roughtime client.  This module models                         *)
(*   - the timestamp converter craggy_roughtimeToEpoc                      *)
(*     (src/library/CraggyTimeUtils.c), in 64-bit unsigned arithmetic;     *)
(*   - the response validator craggy_processResponse, whose body is not    *)
(*     among the sources and is taken from section 4.4 of the              *)
(*     specification, over an ideal hash and an ideal signature scheme;    *)
(*   - the command-line client (src/cli/main.c) from the end of option     *)
(*     parsing on, against a network that delivers any response;           *)
(*   - the wire codec of tagged maps, whose body is not among the sources  *)
(*     and is taken from section 4.1 of the specification.                 *)
(* Numbers wider than 31 bits are little-endian sequences of bytes, so     *)
(* that a uint64_t is a sequence of 8 bytes and C's unsigned arithmetic is *)
(* the exact operation followed by the reduction modulo 2^64.              *)
(***************************************************************************)
EXTENDS Integers, Sequences, FiniteSets, TLC

VARIABLES
    time,               \* roughtimeResult->time, 8 bytes little-endian
    serverRoundTripUs,  \* serverRoundTripUs, 8 bytes little-endian
    outTime,            \* *outTime, 8 bytes little-endian
    tcResult,           \* the CraggyResult returned, "none" before the call
    tcPc,               \* "call" before craggy_roughtimeToEpoc ran, "done" after
    vNonce,             \* the expected nonce handed to craggy_processResponse
    vResponse,          \* the response handed to craggy_processResponse
    vOut,               \* what craggy_processResponse returned
    vPc,                \* "call" before craggy_processResponse ran, "done" after
    pc,                 \* where main of the command-line client stands
    repeats,            \* uint8_t repeats
    nonceOpt,           \* char *nonce decoded, 0 when --nonce was not given
    nonceBytes,         \* craggy_rough_time_nonce_t nonceBytes, 0 before it is set
    requestBuf,         \* the request built from nonceBytes
    responseBuf,        \* the response craggy_makeRequest stored
    craggyResult,       \* CraggyResult craggyResult
    timestamp,          \* craggy_rough_time_t timestamp, <<>> while not assigned
    radius,             \* uint32_t radius
    printed,            \* the lines printed since the last START marker
    accepted,           \* history: the responses verified so far, in order
    requested,          \* the count given with -r (1 without the option)
    hostname,           \* char *hostname, "NULL" without --host
    publicKeyLen,       \* the decoded length of --key, 0 for publicKey == NULL
    nonceLen,           \* the decoded length of --nonce, 0 for nonce == NULL
    realtime,           \* end_realtime_us, 8 bytes little-endian
    exchange,           \* history: the state of the current exchange
    exchanges,          \* history: the requests built
    sends,              \* history: the calls of craggy_makeRequest
    waited,             \* the time craggy_makeRequest has waited for a response
    exitStatus,         \* what main returned, -1 while it runs
    start_us,           \* const uint64_t start_us, <<>> while not assigned
    end_us,             \* const uint64_t end_us, <<>> while not assigned
    entries,            \* the tagged entries a wire message is encoded from
    fault,              \* how the offset table of the message is damaged
    buf,                \* the bytes handed to the decoder
    decoded,            \* what the decoder returned
    cPc,                \* "call" before the decoder ran, "done" after
    rqNonce,            \* the nonce handed to craggy_createRequest
    rqBuf,              \* the request the first call built
    rqAgain,            \* the request a second call with the same nonce built
    rqPc,               \* "call", "built" after one call, "rebuilt" after two
    program,            \* the file whose main runs as the GNSS client
    gPc,                \* where main of the GNSS client stands
    gHostname,          \* char *hostname of the GNSS client
    gPublicKeyLen,      \* the decoded length of --key, 0 for publicKey == NULL
    gNonceLen,          \* the decoded length of --nonce, 0 for nonce == NULL
    gpsPortOpt,         \* the argument of --gpsport, "NULL" without the option
    gpsPort,            \* char *gpsPort
    gRepeats,           \* uint8_t repeats of the GNSS client
    gNonceBytes,        \* nonceBytes of the GNSS client, 0 before it is set
    gCraggyResult,      \* CraggyResult craggyResult of the GNSS client
    message,            \* the usage or error line the GNSS client printed
    gSends,             \* history: the calls of craggy_makeRequest
    gExit,              \* what main of the GNSS client returned, -1 while it runs
    tp_lock,            \* simulator.tp_lock
    run,                \* int run, 1 until sig_handler sets it to -1
    avb,                \* int avb of roughtest: the bytes FIONREAD reported
    startLog,           \* what main logged after pthread_cond_timedwait
    gps_serial_thread_running,  \* simulator.gps_serial_thread_running
    serialPc,           \* where gps_serial_thread_ep stands, "off" before it runs
    device,             \* the number of the fix in the thread's device
    gpsdata,            \* simulator.gpsdata.gpsdata.fix.time
    copying,            \* the members simulator->gpsdata = device has yet to copy
    published,          \* history: the fixes assigned to simulator.gpsdata in full
    fix,                \* the fix time main read, -1 for a member not read
    reading,            \* the members main has yet to read
    sendTime,           \* what MonotonicUs returns before the request, 8 bytes
    roundTrip,          \* the microseconds that pass until the second reading
    correction,         \* what is added to timestamp, 8 bytes, <<>> before
    ckPc,               \* "call" before the two clock readings, "done" after
    multi_fragment_offset,  \* size_t multi_fragment_offset
    packet_len,         \* size_t packet_len
    expected_len,       \* size_t expected_len
    frame,              \* history: the copies into msg_buf since the last sync
    lastCopy,           \* history: the offset and length of the last memcpy
    parsed,             \* history: the copies that made the buffer ubx_parse got
    fragments,          \* history: the fragments read so far
    publications,       \* history: the times simulator->gpsdata = device ran
    gps_serial_thread_exit, \* simulator->gps_serial_thread_exit
    portClosed,         \* serial_port_close was called
    doneSignals,        \* the pthread_cond_signal calls of the end of the thread
    mainPc,             \* "run" while main runs, "returned" after its return
    rxPc,               \* "loop" in the receive loop, "overrun" after a copy
                        \* past msg_buf, "ended" after pthread_exit, "killed"
                        \* when the process ended with the thread in its loop
    cmdline,            \* argv: the options given, each with its argument
    optind,             \* the option getopt_long returns next
    heap,               \* the blocks malloc returned: size and string held
    hostnamePtr,        \* char *hostname: 0 for NULL, else a block of heap
    noncePtr,           \* char *nonce
    publicKeyPtr,       \* char *publicKey
    overflowed,         \* history: a strcpy wrote past the block it was given
    oPc,                \* "parse" in the option loop, "done" after it,
                        \* "crash" when the process was killed in it
    ubx_PRN,            \* int ubx_PRN, the argument of ubx_to_prn
    prnOut,             \* *gnssId, *svId and the value ubx_to_prn returned
    prnPc,              \* "call" before ubx_to_prn, "done" after
    data_len,           \* size_t data_len, the length of the NAV-PVT payload
    pvtBuf,             \* the fields of the payload ubx_msg_nav_pvt reads
    session,            \* struct gps_device_t *session: iTOW, fix.mode, fix.time
    sessionBefore,      \* history: the session at the call
    pvtMask,            \* the gps_mask_t ubx_msg_nav_pvt returned
    pvtPc,              \* "call" before ubx_msg_nav_pvt, "done" after
    frameLen,           \* size_t len, the bytes of the buffer given to ubx_parse
    frameMsg,           \* the message id of bytes 2 and 3
    frameDataLen,       \* the payload length declared in bytes 4 and 5
    frameCount,         \* the channel or measurement count the payload declares
    frameVer,           \* the version byte of NAV-SAT
    frameMag,           \* whether the valid byte of NAV-PVT has the MAG bit
    highestRead,        \* history: the highest index of buf read, -1 for none
    upPc                \* "call" before ubx_parse, "done" after

timeVars == <<time, serverRoundTripUs, outTime, tcResult, tcPc>>
verifyVars == <<vNonce, vResponse, vOut, vPc>>

driverVars == <<pc, repeats, nonceOpt, nonceBytes, requestBuf, responseBuf,
                craggyResult, timestamp, radius, printed, accepted, requested,
                hostname, publicKeyLen, nonceLen, realtime, exchange, exchanges,
                sends, waited, exitStatus, start_us, end_us>>

codecVars == <<entries, fault, buf, decoded, cPc>>

requestVars == <<rqNonce, rqBuf, rqAgain, rqPc>>

gnssVars == <<program, gPc, gHostname, gPublicKeyLen, gNonceLen, gpsPortOpt,
              gpsPort, gRepeats, gNonceBytes, gCraggyResult, message, gSends,
              gExit, tp_lock, run, avb, startLog, gps_serial_thread_running,
              serialPc, device, gpsdata, copying, published, fix, reading>>

clock32Vars == <<sendTime, roundTrip, correction, ckPc>>

reassemblyVars == <<multi_fragment_offset, packet_len, expected_len, frame,
                    lastCopy, parsed, fragments, publications,
                    gps_serial_thread_exit, portClosed, doneSignals, mainPc, rxPc>>

parseVars == <<cmdline, optind, heap, hostnamePtr, noncePtr, publicKeyPtr,
               overflowed, oPc>>

prnVars == <<ubx_PRN, prnOut, prnPc>>

pvtVars == <<data_len, pvtBuf, session, sessionBefore, pvtMask, pvtPc>>

frameVars == <<frameLen, frameMsg, frameDataLen, frameCount, frameVer, frameMag,
               highestRead, upPc>>

vars == <<timeVars, verifyVars, driverVars, codecVars, requestVars, gnssVars, clock32Vars, reassemblyVars, parseVars, prnVars, pvtVars, frameVars>>

(***************************************************************************)
(* Natural numbers as little-endian byte sequences (no length limit).      *)
(***************************************************************************)
RECURSIVE FromInt(_)
FromInt(n) == IF n = 0 THEN <<>> ELSE <<n % 256>> \o FromInt(n \div 256)

RECURSIVE Normalize(_)
Normalize(a) ==
    IF a = <<>> THEN <<>>
    ELSE IF a[Len(a)] = 0 THEN Normalize(SubSeq(a, 1, Len(a) - 1))
    ELSE a

RECURSIVE NatAddC(_, _, _)
NatAddC(a, b, c) ==
    IF a = <<>> /\ b = <<>> THEN FromInt(c)
    ELSE LET x == IF a = <<>> THEN 0 ELSE Head(a)
             y == IF b = <<>> THEN 0 ELSE Head(b)
             s == x + y + c
         IN  <<s % 256>> \o NatAddC(IF a = <<>> THEN <<>> ELSE Tail(a),
                                    IF b = <<>> THEN <<>> ELSE Tail(b),
                                    s \div 256)

NatAdd(a, b) == Normalize(NatAddC(a, b, 0))

RECURSIVE NatMulC(_, _, _)
NatMulC(a, k, c) ==
    IF a = <<>> THEN FromInt(c)
    ELSE LET p == Head(a) * k + c
         IN  <<p % 256>> \o NatMulC(Tail(a), k, p \div 256)

\* a * k for a small factor k (k < 2^22)
NatMulSmall(a, k) == Normalize(NatMulC(a, k, 0))

RECURSIVE NatDivR(_, _, _)
NatDivR(a, k, r) ==
    IF a = <<>> THEN <<>>
    ELSE LET n   == Len(a)
             cur == r * 256 + a[n]
         IN  NatDivR(SubSeq(a, 1, n - 1), k, cur % k) \o <<cur \div k>>

\* floor(a / k) for a small divisor k (0 < k < 2^22)
NatDivSmall(a, k) == Normalize(NatDivR(a, k, 0))

RECURSIVE NatLessN(_, _)
NatLessN(a, b) ==
    IF Len(a) # Len(b) THEN Len(a) < Len(b)
    ELSE IF a = <<>> THEN FALSE
    ELSE IF a[Len(a)] # b[Len(b)] THEN a[Len(a)] < b[Len(b)]
    ELSE NatLessN(SubSeq(a, 1, Len(a) - 1), SubSeq(b, 1, Len(b) - 1))

NatLess(a, b) == NatLessN(Normalize(a), Normalize(b))

(***************************************************************************)
(* uint64_t: 8 bytes, every operation reduced modulo 2^64.                 *)
(***************************************************************************)
U64Bytes == 8

U64(a) == [i \in 1 .. U64Bytes |-> IF i <= Len(a) THEN a[i] ELSE 0]

\* whether the exact value a does not fit in a uint64_t
Exceeds64(a) == Len(Normalize(a)) > U64Bytes

U64Add(a, b) == U64(NatAddC(a, b, 0))

U64MulSmall(a, k) == U64(NatMulC(a, k, 0))

U64DivSmall(a, k) == U64(NatDivR(a, k, 0))

RECURSIVE SubB(_, _, _)
SubB(a, b, borrow) ==
    IF a = <<>> THEN <<>>
    ELSE LET d == Head(a) - Head(b) - borrow
         IN  <<(d + 256) % 256>> \o SubB(Tail(a), Tail(b), IF d < 0 THEN 1 ELSE 0)

U64Sub(a, b) == SubB(U64(a), U64(b), 0)

\* a >> bits and a << bits, for a bit count that is a whole number of bytes
U64Shr(a, bits) ==
    [i \in 1 .. U64Bytes |->
        IF i + bits \div 8 <= U64Bytes THEN a[i + bits \div 8] ELSE 0]

U64Shl(a, bits) ==
    [i \in 1 .. U64Bytes |-> IF i - bits \div 8 >= 1 THEN a[i - bits \div 8] ELSE 0]

(***************************************************************************)
(* The timestamp converter.                                                *)
(***************************************************************************)
NUMBER_OF_JULIAN_DAYS_UNTIL_EPOCH == 40587
NUMBER_OF_MICROSECONDS_IN_SECOND == 1000000
NUMBER_OF_SECONDS_IN_A_DAY == 60 * 60 * 24

CraggyResultSuccess == "CraggyResultSuccess"

\* line 40: the day count of the timestamp, less the days until the epoch
DaysSinceEpoch(t) ==
    U64Sub(U64Shr(t, 40), FromInt(NUMBER_OF_JULIAN_DAYS_UNTIL_EPOCH))

\* line 41: the microseconds since midnight, (time << 24) >> 24
UsSinceMidnight(t) == U64Shr(U64Shl(t, 24), 24)

\* line 41: serverRoundTripUs / 2
HalfRoundTrip(rtt) == U64DivSmall(rtt, 2)

\* a build that adds the whole round trip instead of half of it
roughtimeToEpocWholeRtt(t, rtt) ==
    LET first  == U64MulSmall(DaysSinceEpoch(t), NUMBER_OF_SECONDS_IN_A_DAY)
        second == U64DivSmall(U64Add(UsSinceMidnight(t), rtt),
                              NUMBER_OF_MICROSECONDS_IN_SECOND)
    IN  [outTime |-> U64Add(first, second), result |-> CraggyResultSuccess]

\* a build that rounds the microseconds to the nearest second
roughtimeToEpocRounded(t, rtt) ==
    LET first  == U64MulSmall(DaysSinceEpoch(t), NUMBER_OF_SECONDS_IN_A_DAY)
        second == U64DivSmall(U64Add(U64Add(UsSinceMidnight(t), HalfRoundTrip(rtt)),
                                     FromInt(500000)),
                              NUMBER_OF_MICROSECONDS_IN_SECOND)
    IN  [outTime |-> U64Add(first, second), result |-> CraggyResultSuccess]

\* lines 40-43: the value stored in *outTime and the result returned
craggy_roughtimeToEpoc(t, rtt) ==
    LET first  == U64MulSmall(DaysSinceEpoch(t), NUMBER_OF_SECONDS_IN_A_DAY)
        second == U64DivSmall(U64Add(UsSinceMidnight(t), HalfRoundTrip(rtt)),
                              NUMBER_OF_MICROSECONDS_IN_SECOND)
    IN  [outTime |-> U64Add(first, second), result |-> CraggyResultSuccess]

\* whether an intermediate result of lines 40-41 leaves 0 .. 2^64-1
roughtimeToEpocWraps(t, rtt) ==
    LET mjd    == Normalize(U64Shr(t, 40))
        days   == DaysSinceEpoch(t)
        first  == U64MulSmall(days, NUMBER_OF_SECONDS_IN_A_DAY)
        sum    == NatAddC(UsSinceMidnight(t), HalfRoundTrip(rtt), 0)
        second == U64DivSmall(U64(sum), NUMBER_OF_MICROSECONDS_IN_SECOND)
    IN  \/ NatLess(mjd, FromInt(NUMBER_OF_JULIAN_DAYS_UNTIL_EPOCH))
        \/ Exceeds64(NatMulC(days, NUMBER_OF_SECONDS_IN_A_DAY, 0))
        \/ Exceeds64(sum)
        \/ Exceeds64(NatAddC(first, second, 0))

(***************************************************************************)
(* Inputs of the converter: day counts around the epoch day and at the     *)
(* ends of the 24-bit range, microsecond counts and round trips at the     *)
(* ends of their ranges and around a whole second.                         *)
(***************************************************************************)
MjdSpan == 1

MjdInputs ==
    (NUMBER_OF_JULIAN_DAYS_UNTIL_EPOCH - MjdSpan
        .. NUMBER_OF_JULIAN_DAYS_UNTIL_EPOCH + MjdSpan)
    \cup {0, 59401, 16777215}

\* 40-bit microsecond counts, 5 bytes little-endian
UsInputs ==
    { <<0, 0, 0, 0, 0>>,                \* 0
      <<63, 66, 15, 0, 0>>,             \* 999999
      <<64, 66, 15, 0, 0>>,             \* 1000000
      <<214, 188, 232, 238, 12>>,       \* 55547837654
      <<255, 95, 215, 29, 20>>,         \* 86399999999
      <<255, 255, 255, 255, 255>> }     \* 2^40 - 1

RttInputs ==
    { U64(FromInt(0)), U64(FromInt(1)), U64(FromInt(2)), U64(FromInt(3)),
      U64(FromInt(1000000)), U64(FromInt(1999999)),
      <<0, 0, 0, 0, 0, 0, 0, 128>>,                     \* 2^63
      <<255, 255, 255, 255, 255, 255, 255, 255>> }      \* 2^64 - 1

\* the timestamp with day count mjd and microseconds us
MakeTime(mjd, us) == us \o [i \in 1 .. 3 |-> FromInt(mjd + 16777216)[i]]

MjdOf(t) == t[6] + 256 * t[7] + 65536 * t[8]

TimeInputs ==
    /\ time \in {MakeTime(m, u) : m \in MjdInputs, u \in UsInputs}
    /\ serverRoundTripUs \in RttInputs
    /\ outTime = U64(<<>>)
    /\ tcResult = "none"
    /\ tcPc = "call"

\* the converter is not in use
TimeIdle ==
    /\ time = U64(<<>>)
    /\ serverRoundTripUs = U64(<<>>)
    /\ outTime = U64(<<>>)
    /\ tcResult = "none"
    /\ tcPc = "idle"

RoughtimeToEpoc ==
    /\ tcPc = "call"
    /\ outTime' = craggy_roughtimeToEpoc(time, serverRoundTripUs).outTime
    /\ tcResult' = craggy_roughtimeToEpoc(time, serverRoundTripUs).result
    /\ tcPc' = "done"
    /\ UNCHANGED <<time, serverRoundTripUs>>
    /\ UNCHANGED <<verifyVars, driverVars, codecVars, requestVars, gnssVars, clock32Vars, reassemblyVars, parseVars, prnVars, pvtVars, frameVars>>

(***************************************************************************)
(* The response validator (specification, section 4.4).                    *)
(*                                                                         *)
(* A nonce is a number standing for its 32 bytes.  The hash is ideal: a    *)
(* hash value is identified with the bytes hashed, so two hash values are  *)
(* equal exactly when their inputs are.  The signature scheme is ideal: a  *)
(* signature names the key that made it and the bytes it covers, and it    *)
(* verifies under that public key over those bytes only.                   *)
(***************************************************************************)
MaxNonce == 2
MaxPath == 2
MaxIndex == 3

Nonces == 1 .. MaxNonce

\* the long-term key, the server's delegated key, a key of the adversary
RootKey == "root"
DelegatedKey == "dele"
AdversaryKey == "evil"

\* section 4.4, steps 3 and 4: the two signing contexts
CertificateContext == <<67>>

\* a validator that reuses the certificate context for responses
ReusedContext == CertificateContext

ResponseContext == <<82>>

\* section 4.4, steps 5 and 6: leaf prefix 0, internal-node prefix 1
LeafHash(nonce) == <<0, nonce>>
NodeHash(left, right) == <<1>> \o left \o right

\* the byte-exact encodings the signatures cover
EncodeDELE(dele) == <<IF dele.PUBK = DelegatedKey THEN 1 ELSE 2>>
EncodeSREP(srep) == <<srep.MIDP, srep.RADI>> \o srep.ROOT

Sign(key, bytes) == [signer |-> key, over |-> bytes]

Ed25519Verify(sig, publicKey, bytes) == sig.signer = publicKey /\ sig.over = bytes

\* section 4.4, step 3
CertSignatureOk(rootPublicKey, response) ==
    Ed25519Verify(response.CERT.SIG, rootPublicKey,
                  CertificateContext \o EncodeDELE(response.CERT.DELE))

\* section 4.4, step 4
ResponseSignatureOk(response) ==
    Ed25519Verify(response.SIG, response.CERT.DELE.PUBK,
                  ResponseContext \o EncodeSREP(response.SREP))

\* section 4.4, step 6: one bit of INDX per path element, lowest first
RECURSIVE MerkleWalk(_, _, _)
MerkleWalk(hash, index, path) ==
    IF path = <<>> THEN hash
    ELSE MerkleWalk(IF index % 2 = 1 THEN NodeHash(Head(path), hash)
                                     ELSE NodeHash(hash, Head(path)),
                    index \div 2, Tail(path))

\* a validator that accepts the leaf of any nonce, not the expected one
MerklePathOkAnyLeaf(nonce, response) ==
    \E m \in Nonces :
        MerkleWalk(LeafHash(m), response.INDX, response.PATH) = response.SREP.ROOT

\* section 4.4, steps 5 and 6: the leaf comes from the expected nonce
MerklePathOk(nonce, response) ==
    MerkleWalk(LeafHash(nonce), response.INDX, response.PATH) = response.SREP.ROOT

VerifyError(kind) == [ok |-> FALSE, result |-> kind, timestamp |-> <<>>, radius |-> 0]

\* section 4.4, steps 1 to 7
craggy_processResponse(nonce, rootPublicKey, response) ==
    IF response.wire # "ok" THEN VerifyError("MalformedResponse")
    ELSE IF ~CertSignatureOk(rootPublicKey, response)
        THEN VerifyError("InvalidCertificateSignature")
    ELSE IF ~ResponseSignatureOk(response)
        THEN VerifyError("InvalidResponseSignature")
    ELSE IF ~MerklePathOk(nonce, response)
        THEN VerifyError("MerklePathMismatch")
    ELSE [ok |-> TRUE, result |-> CraggyResultSuccess,
          timestamp |-> response.SREP.MIDP, radius |-> response.SREP.RADI]

(***************************************************************************)
(* Responses the network can deliver.                                      *)
(***************************************************************************)
Certificate(signer, context, pubk) ==
    [DELE |-> [PUBK |-> pubk],
     SIG  |-> Sign(signer, context \o EncodeDELE([PUBK |-> pubk]))]

MakeResponse(cert, signer, context, indx, path, root, midp, radi) ==
    LET srep == [ROOT |-> root, MIDP |-> midp, RADI |-> radi]
    IN  [wire |-> "ok",
         SIG  |-> Sign(signer, context \o EncodeSREP(srep)),
         CERT |-> cert, INDX |-> indx, PATH |-> path, SREP |-> srep]

\* a response whose top-level or nested map does not decode
MalformedResponse ==
    [wire |-> "malformed",
     SIG  |-> Sign(AdversaryKey, <<>>),
     CERT |-> Certificate(AdversaryKey, <<>>, AdversaryKey),
     INDX |-> 0, PATH |-> <<>>,
     SREP |-> [ROOT |-> <<>>, MIDP |-> <<>>, RADI |-> 0]]

\* the certificate of the server, the same signed under the response
\* context, and a certificate the adversary signs for its own key
Certificates ==
    { Certificate(RootKey, CertificateContext, DelegatedKey),
      Certificate(RootKey, ResponseContext, DelegatedKey),
      Certificate(AdversaryKey, CertificateContext, AdversaryKey) }

\* who signs SREP, and under which context
ResponseSigners ==
    { <<DelegatedKey, ResponseContext>>,
      <<DelegatedKey, CertificateContext>>,
      <<AdversaryKey, ResponseContext>> }

PathsOver(hashes, maxLen) ==
    UNION {[1 .. n -> hashes] : n \in 0 .. maxLen}

\* two midpoints in microseconds, 2^63 microseconds apart
MidpointNear == U64(FromInt(700000000))
MidpointFar == [i \in 1 .. U64Bytes |-> 255]

\* the (MIDP, RADI) pairs a response can carry
TimeValues ==
    { [MIDP |-> MidpointNear, RADI |-> 5], [MIDP |-> MidpointFar, RADI |-> 9] }

\* the Merkle part of a response: the tree is built for nonce m at index
\* indx with siblings path, and ROOT is its root or another hash
MerkleParts(nonces, paths, indices) ==
    UNION { { [INDX |-> i, PATH |-> p, ROOT |-> r] :
                r \in {MerkleWalk(LeafHash(m), j, p) : m \in nonces, j \in {0, i}} } :
            i \in indices, p \in paths }

ResponsesOver(certs, signers, parts, times) ==
    { MakeResponse(c, s[1], s[2], mp.INDX, mp.PATH, mp.ROOT, t.MIDP, t.RADI) :
        c \in certs, s \in signers, mp \in parts, t \in times }
    \cup {MalformedResponse}

VerifyResponses ==
    ResponsesOver(Certificates, ResponseSigners,
                  MerkleParts(Nonces, PathsOver({LeafHash(m) : m \in Nonces}, MaxPath),
                              0 .. MaxIndex),
                  TimeValues)

NoOutput == [ok |-> FALSE, result |-> "none", timestamp |-> <<>>, radius |-> 0]

VerifyInputs ==
    /\ vNonce \in Nonces
    /\ vResponse \in VerifyResponses
    /\ vOut = NoOutput
    /\ vPc = "call"

\* the validator is not in use
VerifyIdle ==
    /\ vNonce = 0
    /\ vResponse = MalformedResponse
    /\ vOut = NoOutput
    /\ vPc = "idle"

ProcessResponse ==
    /\ vPc = "call"
    /\ vOut' = craggy_processResponse(vNonce, RootKey, vResponse)
    /\ vPc' = "done"
    /\ UNCHANGED <<vNonce, vResponse>>
    /\ UNCHANGED <<timeVars, driverVars, codecVars, requestVars, gnssVars, clock32Vars, reassemblyVars, parseVars, prnVars, pvtVars, frameVars>>

(***************************************************************************)
(* The command-line client, main of src/cli/main.c, from line 128 on: the  *)
(* options are parsed.  The network and the server are the adversary: the  *)
(* call of craggy_makeRequest ends with any response of DriverResponses,   *)
(* with a transport error or, when nothing arrives, with a timeout.        *)
(***************************************************************************)
MaxRepeats == 2

\* uint8_t repeats (line 69) holds the count given with -r modulo 256
Uint8Values == 256

\* int result = 1 (line 54), never assigned again
result == 1

CRAGGY_ROUGH_TIME_PUBLIC_KEY_LENGTH == 32

CRAGGY_ROUGH_TIME_NONCE_LENGTH == 32

\* line 140: base64DecodedRootPublicKeyLen != CRAGGY_ROUGH_TIME_PUBLIC_KEY_LENGTH
KeyLengthBad(len) == len # CRAGGY_ROUGH_TIME_PUBLIC_KEY_LENGTH

\* a check that only refuses a nonce that is too short
NonceTooShort(outLen) == outLen < CRAGGY_ROUGH_TIME_NONCE_LENGTH

\* line 158: outLen != CRAGGY_ROUGH_TIME_NONCE_LENGTH
NonceLengthBad(outLen) == outLen # CRAGGY_ROUGH_TIME_NONCE_LENGTH

\* the counts given with -r: none (1 by default), small ones, and two that
\* do not fit a uint8_t
RepeatInputs == (0 .. MaxRepeats) \cup {Uint8Values, Uint8Values + 1}

\* the lengths a base64 argument decodes to
DecodedLengths ==
    {CRAGGY_ROUGH_TIME_NONCE_LENGTH - 1, CRAGGY_ROUGH_TIME_NONCE_LENGTH,
     CRAGGY_ROUGH_TIME_NONCE_LENGTH + 1}

\* the monotonic microseconds an exchange can take (end_us - start_us)
Elapsed == {0, 3}

\* what MonotonicUs returns at line 182, in microseconds
MonotonicUs == U64(FromInt(5000000))

\* the time units the transport waits for a response before it gives up
TransportTimeout == 2

\* what the server or the adversary can answer: every certificate and
\* signer, both times, trees of one and two leaves with the nonce at index 0
DriverResponses ==
    ResponsesOver(Certificates, ResponseSigners,
                  MerkleParts(Nonces, PathsOver({LeafHash(m) : m \in Nonces}, 1),
                              {0}),
                  TimeValues)

Line(text) == [line |-> text, time |-> <<>>, radius |-> 0]

\* line 210: static const int64_t kTenMinutes = 10 * 60 * 1000000
kTenMinutes == U64(FromInt(10 * 60 * 1000000))

\* INT64_MIN, the int64_t whose magnitude is not an int64_t
Int64Min == U64Shl(U64(<<128>>), 56)

\* line 208: int64_t system_offset = timestamp - end_realtime_us, the
\* difference modulo 2^64 read as a two's complement number
SystemOffset(ts, rt) == U64Sub(ts, rt)

IsNegative(x) == x[U64Bytes] >= 128

\* line 212: imaxabs, defined for every int64_t but INT64_MIN
imaxabs(x) == IF IsNegative(x) THEN U64Sub(U64(<<>>), x) ELSE x

\* line 212: imaxabs(system_offset) > kTenMinutes
OffsetExceedsTenMinutes(off) == NatLess(kTenMinutes, imaxabs(off))

\* the readings of the realtime clock at line 200, at the distances from
\* the estimate that lie at and around the threshold, and 2^63 microseconds
\* before it; the clock stays below 2^63 microseconds
RealtimeReadings(ts) ==
    LET around == {U64(<<>>), kTenMinutes, U64Add(kTenMinutes, <<1>>)}
    IN  { rt \in {U64Sub(ts, d) : d \in around \cup {Int64Min}}
                 \cup {U64Add(ts, d) : d \in around} :
          ~IsNegative(rt) }

\* the options as parsed (lines 72-126): the count given with -r, the
\* decoded lengths of the key and of the nonce ("NULL" and 0 without the
\* option), the host name
DriverStart ==
    /\ pc = "args"
    /\ requested \in RepeatInputs
    /\ repeats = requested % Uint8Values
    /\ hostname \in {"NULL", "host"}
    /\ publicKeyLen \in {0} \cup DecodedLengths
    /\ nonceLen \in {0} \cup DecodedLengths
    /\ nonceOpt \in (IF nonceLen = CRAGGY_ROUGH_TIME_NONCE_LENGTH THEN Nonces ELSE {0})
    /\ nonceBytes = 0
    /\ requestBuf = 0
    /\ responseBuf = MalformedResponse
    /\ craggyResult = "none"
    /\ timestamp = <<>>
    /\ realtime = <<>>
    /\ start_us = <<>>
    /\ end_us = <<>>
    /\ radius = 0
    /\ printed = <<>>
    /\ accepted = <<>>
    /\ exchange = "Idle"
    /\ exchanges = 0
    /\ sends = 0
    /\ waited = 0
    /\ exitStatus = -1

\* the client is not in use
DriverIdle ==
    /\ pc = "idle"
    /\ requested = 0
    /\ repeats = 0
    /\ hostname = "NULL"
    /\ publicKeyLen = 0
    /\ nonceLen = 0
    /\ nonceOpt = 0
    /\ nonceBytes = 0
    /\ requestBuf = 0
    /\ responseBuf = MalformedResponse
    /\ craggyResult = "none"
    /\ timestamp = <<>>
    /\ realtime = <<>>
    /\ start_us = <<>>
    /\ end_us = <<>>
    /\ radius = 0
    /\ printed = <<>>
    /\ accepted = <<>>
    /\ exchange = "Idle"
    /\ exchanges = 0
    /\ sends = 0
    /\ waited = 0
    /\ exitStatus = -1

\* the options, unchanged once parsed
optionVars == <<requested, hostname, publicKeyLen, nonceLen, nonceOpt>>

\* what an exchange keeps count of
exchangeVars == <<exchange, exchanges, sends, waited>>

\* what the exchanges leave behind
outputVars == <<responseBuf, craggyResult, timestamp, realtime, radius, accepted>>
clockVars == <<start_us, end_us>>

\* lines 128-132: a required option is missing or repeats is 0
Usage ==
    /\ pc = "args"
    /\ publicKeyLen = 0 \/ hostname = "NULL" \/ repeats < 1
    /\ printed' = Append(printed, Line("usage"))
    /\ exitStatus' = 1
    /\ pc' = "exit"
    /\ UNCHANGED <<repeats, nonceBytes, requestBuf>>
    /\ UNCHANGED <<optionVars, exchangeVars, outputVars>>
    /\ UNCHANGED clockVars
    /\ UNCHANGED <<timeVars, verifyVars, codecVars, requestVars, gnssVars, clock32Vars, reassemblyVars, parseVars, prnVars, pvtVars, frameVars>>

\* lines 128-134: the options are there
ArgumentsOk ==
    /\ pc = "args"
    /\ ~(publicKeyLen = 0 \/ hostname = "NULL" \/ repeats < 1)
    /\ pc' = "key"
    /\ UNCHANGED <<repeats, nonceBytes, requestBuf, printed, exitStatus>>
    /\ UNCHANGED <<optionVars, exchangeVars, outputVars>>
    /\ UNCHANGED clockVars
    /\ UNCHANGED <<timeVars, verifyVars, codecVars, requestVars, gnssVars, clock32Vars, reassemblyVars, parseVars, prnVars, pvtVars, frameVars>>

\* lines 136-144: the key does not decode to 32 bytes
KeyLengthError ==
    /\ pc = "key"
    /\ KeyLengthBad(publicKeyLen)
    /\ printed' = Append(printed, Line("Public key length must be"))
    /\ pc' = "error"
    /\ UNCHANGED <<repeats, nonceBytes, requestBuf, exitStatus>>
    /\ UNCHANGED <<optionVars, exchangeVars, outputVars>>
    /\ UNCHANGED clockVars
    /\ UNCHANGED <<timeVars, verifyVars, codecVars, requestVars, gnssVars, clock32Vars, reassemblyVars, parseVars, prnVars, pvtVars, frameVars>>

\* lines 136-152: the key decodes to 32 bytes
DecodeKey ==
    /\ pc = "key"
    /\ ~KeyLengthBad(publicKeyLen)
    /\ pc' = "nonce"
    /\ UNCHANGED <<repeats, nonceBytes, requestBuf, printed, exitStatus>>
    /\ UNCHANGED <<optionVars, exchangeVars, outputVars>>
    /\ UNCHANGED clockVars
    /\ UNCHANGED <<timeVars, verifyVars, codecVars, requestVars, gnssVars, clock32Vars, reassemblyVars, parseVars, prnVars, pvtVars, frameVars>>

\* lines 154-162: --nonce was given and does not decode to 32 bytes
NonceLengthError ==
    /\ pc = "nonce"
    /\ nonceLen # 0
    /\ NonceLengthBad(nonceLen)
    /\ printed' = Append(printed, Line("Nonce length must be"))
    /\ pc' = "error"
    /\ UNCHANGED <<repeats, nonceBytes, requestBuf, exitStatus>>
    /\ UNCHANGED <<optionVars, exchangeVars, outputVars>>
    /\ UNCHANGED clockVars
    /\ UNCHANGED <<timeVars, verifyVars, codecVars, requestVars, gnssVars, clock32Vars, reassemblyVars, parseVars, prnVars, pvtVars, frameVars>>

\* lines 154-165: --nonce was given and decodes to 32 bytes
DecodeNonce ==
    /\ pc = "nonce"
    /\ nonceLen # 0
    /\ ~NonceLengthBad(nonceLen)
    /\ nonceBytes' = nonceOpt
    /\ pc' = "loop"
    /\ UNCHANGED <<repeats, requestBuf, printed, exitStatus>>
    /\ UNCHANGED <<optionVars, exchangeVars, outputVars>>
    /\ UNCHANGED clockVars
    /\ UNCHANGED <<timeVars, verifyVars, codecVars, requestVars, gnssVars, clock32Vars, reassemblyVars, parseVars, prnVars, pvtVars, frameVars>>

\* lines 166-173: craggy_generateNonce fills nonceBytes
GenerateNonce ==
    /\ pc = "nonce"
    /\ nonceLen = 0
    /\ nonceBytes' \in Nonces
    /\ pc' = "loop"
    /\ UNCHANGED <<repeats, requestBuf, printed, exitStatus>>
    /\ UNCHANGED <<optionVars, exchangeVars, outputVars>>
    /\ UNCHANGED clockVars
    /\ UNCHANGED <<timeVars, verifyVars, codecVars, requestVars, gnssVars, clock32Vars, reassemblyVars, parseVars, prnVars, pvtVars, frameVars>>

\* lines 168-172: craggy_generateNonce fails
NonceFailureContinues == "loop"

\* line 171: goto error
NonceFailureTarget == "error"

GenerateNonceFails ==
    /\ pc = "nonce"
    /\ nonceLen = 0
    /\ craggyResult' = "RandomUnavailable"
    /\ printed' = Append(printed, Line("Error generating nonce"))
    /\ pc' = NonceFailureTarget
    /\ UNCHANGED <<repeats, nonceBytes, requestBuf, exitStatus>>
    /\ UNCHANGED <<responseBuf, timestamp, realtime, radius, accepted>>
    /\ UNCHANGED <<optionVars, exchangeVars>>
    /\ UNCHANGED clockVars
    /\ UNCHANGED <<timeVars, verifyVars, codecVars, requestVars, gnssVars, clock32Vars, reassemblyVars, parseVars, prnVars, pvtVars, frameVars>>

\* lines 175-185: the loop test, craggy_createRequest, the START marker
CreateRequest ==
    /\ pc = "loop"
    /\ repeats > 0
    /\ requestBuf' = nonceBytes
    /\ printed' = <<Line("START")>>
    /\ start_us' = MonotonicUs
    /\ end_us' = <<>>
    /\ timestamp' = <<>>
    /\ realtime' = <<>>
    /\ radius' = 0
    /\ exchange' = "Requesting"
    /\ exchanges' = exchanges + 1
    /\ pc' = "send"
    /\ UNCHANGED <<repeats, nonceBytes, exitStatus>>
    /\ UNCHANGED <<responseBuf, craggyResult, accepted, sends, waited>>
    /\ UNCHANGED optionVars
    /\ UNCHANGED <<timeVars, verifyVars, codecVars, requestVars, gnssVars, clock32Vars, reassemblyVars, parseVars, prnVars, pvtVars, frameVars>>

\* line 190: craggy_makeRequest is called and sends the request
MakeRequest ==
    /\ pc = "send"
    /\ sends' = sends + 1
    /\ waited' = 0
    /\ exchange' = "AwaitingResponse"
    /\ pc' = "await"
    /\ UNCHANGED <<repeats, nonceBytes, requestBuf, printed, exitStatus, exchanges>>
    /\ UNCHANGED <<optionVars, outputVars>>
    /\ UNCHANGED clockVars
    /\ UNCHANGED <<timeVars, verifyVars, codecVars, requestVars, gnssVars, clock32Vars, reassemblyVars, parseVars, prnVars, pvtVars, frameVars>>

\* line 190: inside craggy_makeRequest, time passes and nothing arrives
AwaitResponse ==
    /\ pc = "await"
    /\ waited < TransportTimeout
    /\ waited' = waited + 1
    /\ UNCHANGED <<pc, repeats, nonceBytes, requestBuf, printed, exitStatus>>
    /\ UNCHANGED <<exchange, exchanges, sends>>
    /\ UNCHANGED <<optionVars, outputVars>>
    /\ UNCHANGED clockVars
    /\ UNCHANGED <<timeVars, verifyVars, codecVars, requestVars, gnssVars, clock32Vars, reassemblyVars, parseVars, prnVars, pvtVars, frameVars>>

\* line 190: craggy_makeRequest returns true and has stored a response
ResponseArrives ==
    /\ pc = "await"
    /\ responseBuf' \in DriverResponses
    /\ waited' = 0
    /\ pc' = "process"
    /\ UNCHANGED <<repeats, nonceBytes, requestBuf, printed, exitStatus>>
    /\ UNCHANGED <<craggyResult, timestamp, realtime, radius, accepted>>
    /\ UNCHANGED <<optionVars, exchange, exchanges, sends>>
    /\ UNCHANGED clockVars
    /\ UNCHANGED <<timeVars, verifyVars, codecVars, requestVars, gnssVars, clock32Vars, reassemblyVars, parseVars, prnVars, pvtVars, frameVars>>

\* a client that sends the request again after a transport error
TransportErrorRetries == "send"

\* lines 217-221: goto error
TransportErrorTarget == "error"

\* lines 190, 217-221: craggy_makeRequest returns false, the request could
\* not be sent or the read failed
MakeRequestFails ==
    /\ pc = "await"
    /\ craggyResult' = "TransportError"
    /\ printed' = Append(printed, Line("Error making request"))
    /\ exchange' = "Failed"
    /\ pc' = TransportErrorTarget
    /\ UNCHANGED <<repeats, nonceBytes, requestBuf, exitStatus>>
    /\ UNCHANGED <<responseBuf, timestamp, realtime, radius, accepted>>
    /\ UNCHANGED <<optionVars, exchanges, sends>>
    /\ waited' = 0
    /\ UNCHANGED clockVars
    /\ UNCHANGED <<timeVars, verifyVars, codecVars, requestVars, gnssVars, clock32Vars, reassemblyVars, parseVars, prnVars, pvtVars, frameVars>>

\* a transport that waits for the response without a limit
TimeoutNever(w) == FALSE

\* section 5: the wait for the response is bounded by the timeout
TimeoutExpired(w) == w >= TransportTimeout

\* lines 190, 217-221: craggy_makeRequest returns false, no response came
\* within the timeout
RequestTimesOut ==
    /\ pc = "await"
    /\ TimeoutExpired(waited)
    /\ craggyResult' = "Timeout"
    /\ printed' = Append(printed, Line("Error making request"))
    /\ exchange' = "Failed"
    /\ pc' = "error"
    /\ UNCHANGED <<repeats, nonceBytes, requestBuf, exitStatus>>
    /\ UNCHANGED <<responseBuf, timestamp, realtime, radius, accepted>>
    /\ UNCHANGED <<optionVars, exchanges, sends>>
    /\ waited' = 0
    /\ UNCHANGED clockVars
    /\ UNCHANGED <<timeVars, verifyVars, codecVars, requestVars, gnssVars, clock32Vars, reassemblyVars, parseVars, prnVars, pvtVars, frameVars>>

\* a client that stops only at a response that does not decode
ResponseRejectedIfMalformed(r) == r.result = "MalformedResponse"

\* line 193: if (!craggy_processResponse(...))
ResponseRejected(r) == ~r.ok

\* lines 193-197: the response is rejected
ResponseError ==
    /\ pc = "process"
    /\ LET r == craggy_processResponse(nonceBytes, RootKey, responseBuf)
       IN  /\ ResponseRejected(r)
           /\ craggyResult' = r.result
    /\ printed' = Append(printed, Line("Error parsing response"))
    /\ exchange' = "Failed"
    /\ pc' = "error"
    /\ UNCHANGED <<repeats, nonceBytes, requestBuf, exitStatus>>
    /\ UNCHANGED <<responseBuf, timestamp, realtime, radius, accepted>>
    /\ UNCHANGED <<optionVars, exchanges, sends, waited>>
    /\ UNCHANGED clockVars
    /\ UNCHANGED <<timeVars, verifyVars, codecVars, requestVars, gnssVars, clock32Vars, reassemblyVars, parseVars, prnVars, pvtVars, frameVars>>

\* lines 199-209: the lines printed after a verified response
TimeLines(elapsed, t, rad) ==
    << Line("Received reply"),
       [line |-> "Current time", time |-> t, radius |-> rad],
       Line("System clock differs") >>

\* lines 193, 199-209: the response is verified, the clocks are read, the
\* estimate is stored and printed, and then the lines of last
Verified(r, last) ==
    /\ ~ResponseRejected(r)
    /\ \E elapsed \in Elapsed :
         /\ end_us' = U64Add(start_us, FromInt(elapsed))
         /\ timestamp' = U64Add(r.timestamp, U64DivSmall(U64Sub(end_us', start_us), 2))
         /\ realtime' \in RealtimeReadings(timestamp')
         /\ printed' = printed \o TimeLines(elapsed, timestamp', r.radius) \o last
    /\ radius' = r.radius
    /\ craggyResult' = r.result
    /\ accepted' = Append(accepted, responseBuf)
    /\ exchange' = "Verified"
    /\ UNCHANGED start_us

\* lines 193-212, 222-226: the response is verified and the offset does
\* not exceed ten minutes (or is INT64_MIN, where imaxabs is undefined and
\* the comparison can go either way): the STOP marker, the sleep, repeats
ExchangeVerified ==
    /\ pc = "process"
    /\ Verified(craggy_processResponse(nonceBytes, RootKey, responseBuf),
                <<Line("STOP")>>)
    /\ LET off == SystemOffset(timestamp', realtime')
       IN  off = Int64Min \/ ~OffsetExceedsTenMinutes(off)
    /\ repeats' = repeats - 1
    /\ pc' = "loop"
    /\ UNCHANGED <<nonceBytes, requestBuf, responseBuf, exitStatus>>
    /\ UNCHANGED <<optionVars, exchanges, sends, waited>>
    /\ UNCHANGED <<timeVars, verifyVars, codecVars, requestVars, gnssVars, clock32Vars, reassemblyVars, parseVars, prnVars, pvtVars, frameVars>>

\* lines 193-215: the response is verified and the offset exceeds ten
\* minutes (or is INT64_MIN)
OffsetTooLarge ==
    /\ pc = "process"
    /\ Verified(craggy_processResponse(nonceBytes, RootKey, responseBuf), <<>>)
    /\ LET off == SystemOffset(timestamp', realtime')
       IN  off = Int64Min \/ OffsetExceedsTenMinutes(off)
    /\ pc' = "error"
    /\ UNCHANGED <<repeats, nonceBytes, requestBuf, responseBuf, exitStatus>>
    /\ UNCHANGED <<optionVars, exchanges, sends, waited>>
    /\ UNCHANGED <<timeVars, verifyVars, codecVars, requestVars, gnssVars, clock32Vars, reassemblyVars, parseVars, prnVars, pvtVars, frameVars>>

\* lines 175, 229, 233-237: repeats is 0, the loop ends, return result
LoopEnd ==
    /\ pc = "loop"
    /\ repeats = 0
    /\ exitStatus' = result
    /\ pc' = "exit"
    /\ UNCHANGED <<repeats, nonceBytes, requestBuf, printed>>
    /\ UNCHANGED <<optionVars, exchangeVars, outputVars>>
    /\ UNCHANGED clockVars
    /\ UNCHANGED <<timeVars, verifyVars, codecVars, requestVars, gnssVars, clock32Vars, reassemblyVars, parseVars, prnVars, pvtVars, frameVars>>

\* lines 230-237: the error label, assert(result != 0), return result
Error ==
    /\ pc = "error"
    /\ exitStatus' = result
    /\ pc' = "exit"
    /\ UNCHANGED <<repeats, nonceBytes, requestBuf, printed>>
    /\ UNCHANGED <<optionVars, exchangeVars, outputVars>>
    /\ UNCHANGED clockVars
    /\ UNCHANGED <<timeVars, verifyVars, codecVars, requestVars, gnssVars, clock32Vars, reassemblyVars, parseVars, prnVars, pvtVars, frameVars>>


(***************************************************************************)
(* The wire codec (specification, section 4.1).  A message of n entries is *)
(* the 32-bit little-endian count n, n-1 offsets, n tags and the values;   *)
(* an offset is the start of a value in the value area and the last value  *)
(* ends where the buffer ends.                                             *)
(***************************************************************************)
MaxTags == 3

\* SIG\0, NONC and PAD\xff, ascending as 32-bit little-endian numbers
TagPool == { <<83, 73, 71, 0>>, <<78, 79, 78, 67>>, <<80, 65, 68, 255>> }

ValuePool == { <<>>, <<7, 7, 7, 7>> }

U32LE(k) == [i \in 1 .. 4 |-> (k \div 256 ^ (i - 1)) % 256]

RECURSIVE Flatten(_)
Flatten(seqs) == IF seqs = <<>> THEN <<>> ELSE Head(seqs) \o Flatten(Tail(seqs))

RECURSIVE ValueStart(_, _)
\* the offset of value i + 1: the total length of values 1 .. i
ValueStart(es, i) == IF i = 0 THEN 0 ELSE ValueStart(es, i - 1) + Len(es[i].value)

\* the offset table of a message, as written or damaged
OffsetTable(es, f) ==
    [i \in 1 .. Len(es) - 1 |->
        IF f = "beyond" /\ i = Len(es) - 1
            THEN ValueStart(es, Len(es)) + 4
        ELSE IF f = "pastBuffer" /\ i = Len(es) - 1
            THEN 8 * Len(es) + ValueStart(es, Len(es)) + 4
        ELSE IF f = "decreasing" /\ i = 1
            THEN ValueStart(es, 2) + 4
        ELSE ValueStart(es, i)]

\* the least count whose product with the 8 bytes of table per entry does
\* not fit 32 bits
WrapCount == 2 ^ 29

\* the count field of a message, as written or raised by WrapCount, so that
\* 8 times the count is, modulo 2^32, the size of the tables that are there
CountField(es, f) ==
    IF f = "wrapping" THEN U32LE(WrapCount + Len(es)) ELSE U32LE(Len(es))

\* section 4.1: encode, the entries in the order given
EncodeMessage(es, f) ==
    CountField(es, f)
    \o Flatten([i \in 1 .. Len(es) - 1 |-> U32LE(OffsetTable(es, f)[i])])
    \o Flatten([i \in 1 .. Len(es) |-> es[i].tag])
    \o Flatten([i \in 1 .. Len(es) |-> es[i].value])

\* a read of the buffer; past its end it yields an arbitrary byte, here 0
ByteAt(b, i) == IF i <= Len(b) THEN b[i] ELSE 0

Bytes4(b, i) == [k \in 1 .. 4 |-> ByteAt(b, i + k - 1)]

\* the 32-bit little-endian number at bytes i .. i+3
Read32(b, i) == Normalize(Bytes4(b, i))

RECURSIVE ToInt(_)
ToInt(a) == IF a = <<>> THEN 0 ELSE Head(a) + 256 * ToInt(Tail(a))

\* a decoder whose table check rounds the buffer length up
HeaderFitsRoundedUp(b, count) == ~NatLess(FromInt((Len(b) + 7) \div 8), count)

\* section 4.1: count times the 8 bytes of table per entry fits the
\* buffer, compared without forming the product
HeaderFits(b, count) == ~NatLess(FromInt(Len(b) \div 8), count)

\* a decoder that accepts equal neighbours
TagsNotDescending(tags) ==
    \A i \in 1 .. Len(tags) - 1 : ~NatLess(tags[i + 1], tags[i])

\* section 4.1: the tags are strictly ascending as numbers
TagsAscending(tags) ==
    \A i \in 1 .. Len(tags) - 1 : NatLess(tags[i], tags[i + 1])

\* a decoder that checks each offset against the value area only
OffsetsBelowEnd(offsets, valuesLen) ==
    \A i \in 1 .. Len(offsets) : ~NatLess(FromInt(valuesLen), offsets[i])

\* section 4.1: the offsets do not decrease and stay inside the value area
OffsetsInRange(offsets, valuesLen) ==
    /\ \A i \in 1 .. Len(offsets) - 1 : ~NatLess(offsets[i + 1], offsets[i])
    /\ \A i \in 1 .. Len(offsets) : ~NatLess(FromInt(valuesLen), offsets[i])

DecodeError(kind, read) == [err |-> kind, tags |-> <<>>, values |-> <<>>, reads |-> read]

\* section 4.1: decode; reads is the highest index read
DecodeMessage32(b) ==
    IF Len(b) < 4 THEN DecodeError("TruncatedBuffer", 0)
    ELSE LET count == Read32(b, 1) IN
    IF count = <<>> THEN DecodeError("TruncatedBuffer", 4)
    ELSE IF ~HeaderFits(b, count)
        THEN DecodeError(IF Len(Normalize(NatMulSmall(count, 8))) > 4
                             THEN "IntegerOverflow" ELSE "TruncatedBuffer", 4)
    ELSE LET n         == ToInt(count)
             offsets   == [i \in 1 .. n - 1 |-> Read32(b, 4 * i + 1)]
             tags      == [i \in 1 .. n |-> Read32(b, 4 * n + 4 * (i - 1) + 1)]
             valuesLen == Len(b) - 8 * n
             start(i)  == IF i = 1 THEN 0 ELSE ToInt(offsets[i - 1])
             end(i)    == IF i = n THEN valuesLen ELSE ToInt(offsets[i])
         IN
    IF ~TagsAscending(tags) THEN DecodeError("BadTagOrder", 8 * n)
    ELSE IF ~OffsetsInRange(offsets, valuesLen)
        THEN DecodeError("OffsetOutOfRange", 8 * n)
    ELSE [err    |-> "none",
          tags   |-> [i \in 1 .. n |-> Bytes4(b, 4 * n + 4 * (i - 1) + 1)],
          values |-> [i \in 1 .. n |-> SubSeq(b, 8 * n + start(i) + 1, 8 * n + end(i))],
          reads  |-> Len(b)]

(***************************************************************************)
(* Inputs of the decoder: every prefix of every message of up to MaxTags   *)
(* entries, the tags in any order and with repetitions, the count and the  *)
(* offset table as written or damaged.                                     *)
(***************************************************************************)
Messages ==
    UNION { [1 .. n -> [tag : TagPool, value : ValuePool]] : n \in 0 .. MaxTags }

Faults == {"none", "beyond", "decreasing", "pastBuffer", "wrapping"}

CodecInputs ==
    /\ entries \in Messages
    /\ fault \in {f \in Faults :
                    \/ f \in {"none", "wrapping"}
                    \/ Len(entries) >= (IF f = "decreasing" THEN 3 ELSE 2)}
    /\ buf \in {SubSeq(EncodeMessage(entries, fault), 1, cut) :
                  cut \in 0 .. Len(EncodeMessage(entries, fault))}
    /\ decoded = DecodeError("none", 0)
    /\ cPc = "call"

\* the codec is not in use
CodecIdle ==
    /\ entries = <<>>
    /\ fault = "none"
    /\ buf = <<>>
    /\ decoded = DecodeError("none", 0)
    /\ cPc = "idle"

DecodeMessage ==
    /\ cPc = "call"
    /\ decoded' = DecodeMessage32(buf)
    /\ cPc' = "done"
    /\ UNCHANGED <<entries, fault, buf>>
    /\ UNCHANGED <<timeVars, verifyVars, driverVars, requestVars, gnssVars, clock32Vars, reassemblyVars, parseVars, prnVars, pvtVars, frameVars>>

(***************************************************************************)
(* The request builder craggy_createRequest (specification, section 4.2;   *)
(* called at src/cli/main.c:178).  Its body is not among the sources: the  *)
(* request is the tagged map of NONC and, when the message would be        *)
(* shorter than the minimum request size, PAD, written by the wire codec.  *)
(***************************************************************************)
\* CRAGGY_ROUGH_TIME_MIN_REQUEST_SIZE, whose value is not in the sources
MinRequestSize == 64

TagNONC == <<78, 79, 78, 67>>
TagPAD == <<80, 65, 68, 255>>

PadValue(len) == [i \in 1 .. len |-> 0]

\* a builder that sends the nonce without padding
createRequestUnpadded(nonce) ==
    EncodeMessage(<<[tag |-> TagNONC, value |-> nonce]>>, "none")

\* section 4.2: build
craggy_createRequest(nonce) ==
    LET bare   == EncodeMessage(<<[tag |-> TagNONC, value |-> nonce]>>, "none")
        tables == 16
        padLen == IF MinRequestSize > tables + Len(nonce)
                      THEN MinRequestSize - tables - Len(nonce) ELSE 0
    IN  IF Len(bare) >= MinRequestSize THEN bare
        ELSE EncodeMessage(<<[tag |-> TagNONC, value |-> nonce],
                             [tag |-> TagPAD, value |-> PadValue(padLen)]>>, "none")

\* the bytes a nonce is made of in the inputs below
NonceByteValues == {0, 1, 2, 127, 128, 254, 255}

\* nonces of 32 bytes that differ in their first and last byte
RequestNonces ==
    { [i \in 1 .. CRAGGY_ROUGH_TIME_NONCE_LENGTH |->
          IF i = 1 THEN a ELSE IF i = CRAGGY_ROUGH_TIME_NONCE_LENGTH THEN b ELSE 1] :
      a, b \in NonceByteValues }

RequestInputs ==
    /\ rqNonce \in RequestNonces
    /\ rqBuf = <<>>
    /\ rqAgain = <<>>
    /\ rqPc = "call"

\* the builder is not in use
RequestIdle ==
    /\ rqNonce = <<>>
    /\ rqBuf = <<>>
    /\ rqAgain = <<>>
    /\ rqPc = "idle"

\* craggy_createRequest(nonceBytes, requestBuf)
CreateRequestOnce ==
    /\ rqPc = "call"
    /\ rqBuf' = craggy_createRequest(rqNonce)
    /\ rqPc' = "built"
    /\ UNCHANGED <<rqNonce, rqAgain>>
    /\ UNCHANGED <<timeVars, verifyVars, driverVars, codecVars, gnssVars, clock32Vars, reassemblyVars, parseVars, prnVars, pvtVars, frameVars>>

\* a second call with the same nonce, as the next loop iteration makes it
CreateRequestAgain ==
    /\ rqPc = "built"
    /\ rqAgain' = craggy_createRequest(rqNonce)
    /\ rqPc' = "rebuilt"
    /\ UNCHANGED <<rqNonce, rqBuf>>
    /\ UNCHANGED <<timeVars, verifyVars, driverVars, codecVars, gnssVars, clock32Vars, reassemblyVars, parseVars, prnVars, pvtVars, frameVars>>

(***************************************************************************)
(* The GNSS clients: main of the threaded tester (src/unnamed/part_003),   *)
(* main of the tester in src/roughtime-tester/gps-sim.h, main of roughtest *)
(* (src/craggy-serial/roughtest/CMakeLists.txt), and the serial thread     *)
(* gps_serial_thread_ep (src/unnamed/part_002) that publishes the fix in   *)
(* simulator.gpsdata.                                                      *)
(***************************************************************************)
\* the most fixes the receiver delivers in one run
MaxFixes == 2

\* the mains, named by the file that holds them
Threaded == "part_003"
Roughtest == "CMakeLists.txt"
GnssMains == {Threaded, "gps-sim.h", Roughtest}

\* what case 'p' leaves in gpsPort: part_003 and roughtest assign the
\* result of strcpy, gps-sim.h copies the name and leaves gpsPort NULL
ParsedGpsPort(main, optarg) ==
    IF main = "gps-sim.h" THEN "NULL" ELSE optarg

\* the members of struct timespec
TimeFields == {"tv_sec", "tv_nsec"}

\* the time of the n-th fix ubx_parse stores; simulator is a global and
\* starts zeroed
FixTime(n) == [tv_sec |-> n, tv_nsec |-> (n * 250) % 1000]

\* the lines main prints before goto error
FailureMessages ==
    {"Public key length must be", "Nonce length must be",
     "Error generating nonce", "Error parsing response",
     "Error making request"}

GnssStart ==
    /\ program \in GnssMains
    /\ gPc = "args"
    /\ gHostname \in {"NULL", "host"}
    /\ gPublicKeyLen \in {0} \cup DecodedLengths
    /\ gNonceLen \in {0} \cup DecodedLengths
    /\ gpsPortOpt \in {"NULL", "/dev/gps"}
    /\ gpsPort = ParsedGpsPort(program, gpsPortOpt)
    /\ gRepeats \in 0 .. MaxRepeats
    /\ gNonceBytes = 0
    /\ gCraggyResult = "none"
    /\ message = "none"
    /\ startLog = "none"
    /\ gSends = 0
    /\ gExit = -1
    /\ run = 1
    /\ avb = 0
    /\ tp_lock = FALSE
    /\ gps_serial_thread_running = FALSE
    /\ serialPc = "off"
    /\ device = 0
    /\ gpsdata = FixTime(0)
    /\ copying = {}
    /\ published = {0}
    /\ fix = [tv_sec |-> -1, tv_nsec |-> -1]
    /\ reading = {}

GnssIdle ==
    /\ program = "none"
    /\ gPc = "idle"
    /\ gHostname = "NULL"
    /\ gPublicKeyLen = 0
    /\ gNonceLen = 0
    /\ gpsPortOpt = "NULL"
    /\ gpsPort = "NULL"
    /\ gRepeats = 0
    /\ gNonceBytes = 0
    /\ gCraggyResult = "none"
    /\ message = "none"
    /\ startLog = "none"
    /\ gSends = 0
    /\ gExit = -1
    /\ run = 1
    /\ avb = 0
    /\ tp_lock = FALSE
    /\ gps_serial_thread_running = FALSE
    /\ serialPc = "off"
    /\ device = 0
    /\ gpsdata = FixTime(0)
    /\ copying = {}
    /\ published = {0}
    /\ fix = [tv_sec |-> -1, tv_nsec |-> -1]
    /\ reading = {}

gnssOptionVars == <<program, gHostname, gPublicKeyLen, gNonceLen, gpsPortOpt, gpsPort>>
serialVars == <<serialPc, device, gpsdata, copying, published>>
flagVars == <<run, avb, tp_lock, gps_serial_thread_running>>
otherVars == <<timeVars, verifyVars, driverVars, codecVars, requestVars, clock32Vars,
              reassemblyVars, parseVars, prnVars, pvtVars, frameVars>>

\* if (publicKey == NULL || hostname == NULL || gpsPort == NULL)
OptionMissing == gPublicKeyLen = 0 \/ gHostname = "NULL" \/ gpsPort = "NULL"

\* the usage text, return 1
GnssUsage ==
    /\ gPc = "args"
    /\ OptionMissing
    /\ message' = "usage: roughtimetester"
    /\ gExit' = 1
    /\ gPc' = "exit"
    /\ UNCHANGED <<gnssOptionVars, gRepeats, gNonceBytes, gCraggyResult, gSends,
                   startLog, flagVars, serialVars, fix, reading, otherVars>>

\* pthread_create(&simulator.gps_serial_thread, NULL, gps_serial_thread_ep, ...)
GnssCreateThread ==
    /\ program # Roughtest
    /\ gPc = "args"
    /\ ~OptionMissing
    /\ serialPc' = "start"
    /\ gPc' = "lock"
    /\ UNCHANGED <<gnssOptionVars, gRepeats, gNonceBytes, gCraggyResult, message,
                   gSends, gExit, startLog, flagVars, device, gpsdata, copying,
                   published, fix, reading, otherVars>>

\* pthread_mutex_lock, then pthread_cond_timedwait begins to wait; main
\* does not look at gps_serial_thread_running first
MainWaits ==
    /\ gPc = "lock"
    /\ gPc' = "wait"
    /\ UNCHANGED <<gnssOptionVars, gRepeats, gNonceBytes, gCraggyResult, message,
                   gSends, gExit, startLog, flagVars, serialVars, fix, reading,
                   otherVars>>

\* the serial thread: gps_serial_thread_running = true and
\* pthread_cond_signal, made without the mutex; the signal wakes main when
\* main waits and is lost when it does not
SerialStarts ==
    /\ serialPc = "start"
    /\ gPc # "exit"
    /\ gps_serial_thread_running' = TRUE
    /\ gPc' = IF gPc = "wait" THEN "woken" ELSE gPc
    /\ serialPc' = "loop"
    /\ UNCHANGED <<gnssOptionVars, gRepeats, gNonceBytes, gCraggyResult, message,
                   gSends, gExit, startLog, run, avb, tp_lock, device, gpsdata,
                   copying, published, fix, reading, otherVars>>

\* what main logs after pthread_cond_timedwait returned ret
StartLine(ret) ==
    IF ret = "ETIMEDOUT" THEN "Time out waiting for External GPS thread"
    ELSE "Started External GPS thread"

\* pthread_cond_timedwait has returned ret
WaitReturns(ret) ==
    /\ startLog' = StartLine(ret)
    /\ gPc' = "key"
    /\ UNCHANGED <<gnssOptionVars, gRepeats, gNonceBytes, gCraggyResult, message,
                   gSends, gExit, flagVars, serialVars, fix, reading, otherVars>>

\* the wait ends with the signal of the serial thread
WaitSignalled ==
    /\ gPc = "woken"
    /\ WaitReturns("0")

\* the wait ends with no signal. timeout is a struct timespec that main
\* never assigns: a time that has passed gives ETIMEDOUT at once, a
\* tv_nsec out of range gives EINVAL, and a wait can end spuriously with 0
WaitUnsignalled ==
    /\ gPc = "wait"
    /\ \E ret \in {"ETIMEDOUT", "EINVAL", "0"} : WaitReturns(ret)

\* roughtest: serial_port_open_port fails, return 1
RtOpenFails ==
    /\ program = Roughtest
    /\ gPc = "args"
    /\ ~OptionMissing
    /\ message' = "failed to open the serial port"
    /\ gExit' = 1
    /\ gPc' = "exit"
    /\ UNCHANGED <<gnssOptionVars, gRepeats, gNonceBytes, gCraggyResult, gSends,
                   startLog, flagVars, serialVars, fix, reading, otherVars>>

\* roughtest: the serial port is open
RtOpen ==
    /\ program = Roughtest
    /\ gPc = "args"
    /\ ~OptionMissing
    /\ gPc' = "key"
    /\ UNCHANGED <<gnssOptionVars, gRepeats, gNonceBytes, gCraggyResult, message,
                   gSends, gExit, startLog, flagVars, serialVars, fix, reading,
                   otherVars>>

\* goto error after the line main printed
GnssGotoError(text, res) ==
    /\ message' = text
    /\ gCraggyResult' = res
    /\ gPc' = "error"
    /\ UNCHANGED <<gnssOptionVars, gRepeats, gNonceBytes, gSends, gExit, startLog,
                   flagVars, serialVars, fix, reading, otherVars>>

GnssKeyLengthError ==
    /\ gPc = "key"
    /\ KeyLengthBad(gPublicKeyLen)
    /\ GnssGotoError("Public key length must be", gCraggyResult)

GnssDecodeKey ==
    /\ gPc = "key"
    /\ ~KeyLengthBad(gPublicKeyLen)
    /\ gPc' = "nonce"
    /\ UNCHANGED <<gnssOptionVars, gRepeats, gNonceBytes, gCraggyResult, message,
                   gSends, gExit, startLog, flagVars, serialVars, fix, reading,
                   otherVars>>

GnssNonceLengthError ==
    /\ gPc = "nonce"
    /\ gNonceLen # 0
    /\ NonceLengthBad(gNonceLen)
    /\ GnssGotoError("Nonce length must be", gCraggyResult)

\* where the loop of main begins: while (repeats > 0) in the testers,
\* do { while (avb == 0) in roughtest
LoopHead(main) == IF main = Roughtest THEN "poll" ELSE "loop"

\* memcpy(nonceBytes, decodedNonceBytes, outLen), or craggy_generateNonce
GnssNonceReady ==
    /\ gPc = "nonce"
    /\ gNonceLen = 0 \/ ~NonceLengthBad(gNonceLen)
    /\ gNonceBytes' \in Nonces
    /\ gPc' = LoopHead(program)
    /\ UNCHANGED <<gnssOptionVars, gRepeats, gCraggyResult, message, gSends,
                   gExit, startLog, flagVars, serialVars, fix, reading, otherVars>>

GnssGenerateNonceFails ==
    /\ gPc = "nonce"
    /\ gNonceLen = 0
    /\ GnssGotoError("Error generating nonce", "RandomUnavailable")

\* simulator.tp_lock becomes true: the time pulse of the receiver. No
\* statement under src/ sets the flag; main only tests and clears it.
TimePulse ==
    /\ program = Threaded
    /\ gPc \notin {"idle", "args", "exit"}
    /\ ~tp_lock
    /\ tp_lock' = TRUE
    /\ UNCHANGED <<gnssOptionVars, gPc, gRepeats, gNonceBytes, gCraggyResult,
                   message, gSends, gExit, startLog, run, avb,
                   gps_serial_thread_running, serialVars, fix, reading, otherVars>>

\* sig_handler: SIGINT arrives, run = -1
SigInt ==
    /\ gPc \notin {"idle", "exit"}
    /\ run = 1
    /\ run' = -1
    /\ UNCHANGED <<gnssOptionVars, gPc, gRepeats, gNonceBytes, gCraggyResult,
                   message, gSends, gExit, startLog, avb, tp_lock,
                   gps_serial_thread_running, serialVars, fix, reading, otherVars>>

\* the threaded tester: while (repeats > 0) { if (simulator.tp_lock) {
\* if (craggy_createRequest(...)); run is not looked at
GnssCreateRequest ==
    /\ program = Threaded
    /\ gPc = "loop"
    /\ gRepeats > 0
    /\ tp_lock
    /\ fix' = [tv_sec |-> -1, tv_nsec |-> -1]
    /\ gPc' = "send"
    /\ UNCHANGED <<gnssOptionVars, gRepeats, gNonceBytes, gCraggyResult, message,
                   gSends, gExit, startLog, flagVars, serialVars, reading,
                   otherVars>>

\* roughtest: bytes arrive at the serial port, FIONREAD gives avb > 0
BytesArrive ==
    /\ program = Roughtest
    /\ gPc \notin {"idle", "args", "exit"}
    /\ avb = 0
    /\ device < MaxFixes
    /\ avb' = 1
    /\ UNCHANGED <<gnssOptionVars, gPc, gRepeats, gNonceBytes, gCraggyResult,
                   message, gSends, gExit, startLog, run, tp_lock,
                   gps_serial_thread_running, serialVars, fix, reading, otherVars>>

\* roughtest: while (avb == 0) has ended; the bytes are read and handed to
\* input_ubx
RtIngest ==
    /\ program = Roughtest
    /\ gPc = "poll"
    /\ avb > 0
    /\ device' = device + 1
    /\ gPc' = "request"
    /\ UNCHANGED <<gnssOptionVars, gRepeats, gNonceBytes, gCraggyResult, message,
                   gSends, gExit, startLog, flagVars, serialPc, gpsdata, copying,
                   published, fix, reading, otherVars>>

\* roughtest: craggy_createRequest, the START marker
RtCreateRequest ==
    /\ program = Roughtest
    /\ gPc = "request"
    /\ gPc' = "send"
    /\ UNCHANGED <<gnssOptionVars, gRepeats, gNonceBytes, gCraggyResult, message,
                   gSends, gExit, startLog, flagVars, serialVars, fix, reading,
                   otherVars>>

\* craggy_makeRequest is called and sends the request
GnssMakeRequest ==
    /\ gPc = "send"
    /\ gSends' = gSends + 1
    /\ gPc' = "await"
    /\ UNCHANGED <<gnssOptionVars, gRepeats, gNonceBytes, gCraggyResult, message,
                   gExit, startLog, flagVars, serialVars, fix, reading, otherVars>>

\* craggy_makeRequest returned false
GnssMakeRequestFails ==
    /\ gPc = "await"
    /\ GnssGotoError("Error making request", "TransportError")

\* craggy_makeRequest returned true, craggy_processResponse false
GnssResponseError ==
    /\ gPc = "await"
    /\ \E r \in DriverResponses :
         LET out == craggy_processResponse(gNonceBytes, RootKey, r)
         IN  /\ ~out.ok
             /\ GnssGotoError("Error parsing response", out.result)

\* craggy_makeRequest and craggy_processResponse returned true; the
\* threaded tester goes on to log the fix, roughtest to the STOP marker
GnssVerified ==
    /\ gPc = "await"
    /\ \E r \in DriverResponses :
         LET out == craggy_processResponse(gNonceBytes, RootKey, r)
         IN  /\ out.ok
             /\ gCraggyResult' = out.result
    /\ reading' = IF program = Roughtest THEN {} ELSE TimeFields
    /\ gPc' = IF program = Roughtest THEN "next" ELSE "fix"
    /\ UNCHANGED <<gnssOptionVars, gRepeats, gNonceBytes, message, gSends, gExit,
                   startLog, flagVars, serialVars, fix, otherVars>>

\* log_info("GPSTimestamp: ...", simulator.gpsdata.gpsdata.fix.time.tv_sec
\* + simulator.gpsdata.gpsdata.fix.time.tv_nsec * 1e-9 ...): two loads, in
\* an order the compiler chooses, with no lock held
ReadFix(f) ==
    /\ gPc = "fix"
    /\ f \in reading
    /\ fix' = [fix EXCEPT ![f] = gpsdata[f]]
    /\ reading' = reading \ {f}
    /\ UNCHANGED <<gnssOptionVars, gPc, gRepeats, gNonceBytes, gCraggyResult,
                   message, gSends, gExit, startLog, flagVars, serialVars,
                   otherVars>>

\* repeats--; simulator.tp_lock = false;
GnssStop ==
    /\ gPc = "fix"
    /\ reading = {}
    /\ gRepeats' = gRepeats - 1
    /\ tp_lock' = FALSE
    /\ gPc' = "loop"
    /\ UNCHANGED <<gnssOptionVars, gNonceBytes, gCraggyResult, message, gSends,
                   gExit, startLog, run, avb, gps_serial_thread_running,
                   serialVars, fix, reading, otherVars>>

\* roughtest: avb = 0; sleep; } while (run > 0) goes round
RtAgain ==
    /\ program = Roughtest
    /\ gPc = "next"
    /\ run > 0
    /\ avb' = 0
    /\ gPc' = "poll"
    /\ UNCHANGED <<gnssOptionVars, gRepeats, gNonceBytes, gCraggyResult, message,
                   gSends, gExit, startLog, run, tp_lock,
                   gps_serial_thread_running, serialVars, fix, reading, otherVars>>

\* the status main returns at the label exit: return 0
GnssExitStatus == 0

\* roughtest: avb = 0; } while (run > 0) ends; goto exit; return 0
RtLoopEnd ==
    /\ program = Roughtest
    /\ gPc = "next"
    /\ ~(run > 0)
    /\ avb' = 0
    /\ gExit' = GnssExitStatus
    /\ gPc' = "exit"
    /\ UNCHANGED <<gnssOptionVars, gRepeats, gNonceBytes, gCraggyResult, message,
                   gSends, startLog, run, tp_lock, gps_serial_thread_running,
                   serialVars, fix, reading, otherVars>>

\* while (repeats > 0) ends: goto exit; ... return 0
GnssLoopEnd ==
    /\ gPc = "loop"
    /\ gRepeats = 0
    /\ gExit' = GnssExitStatus
    /\ gPc' = "exit"
    /\ UNCHANGED <<gnssOptionVars, gRepeats, gNonceBytes, gCraggyResult, message,
                   gSends, startLog, flagVars, serialVars, fix, reading, otherVars>>

\* error: assert(result != 0); exit: ...; return 0
GnssError ==
    /\ gPc = "error"
    /\ gExit' = GnssExitStatus
    /\ gPc' = "exit"
    /\ UNCHANGED <<gnssOptionVars, gRepeats, gNonceBytes, gCraggyResult, message,
                   gSends, startLog, flagVars, serialVars, fix, reading, otherVars>>

\* the serial thread is in its loop, until main returns
SerialRuns == serialPc \notin {"off", "start"} /\ gPc # "exit"

mainVars == <<gnssOptionVars, gPc, gRepeats, gNonceBytes, gCraggyResult, message,
              gSends, gExit, startLog, flagVars, fix, reading>>

\* a complete packet: mask = ubx_parse(&device, msg_buf, packet_len)
UbxParse ==
    /\ SerialRuns
    /\ serialPc = "loop"
    /\ device < MaxFixes
    /\ device' = device + 1
    /\ copying' = TimeFields
    /\ serialPc' = "publish"
    /\ UNCHANGED <<mainVars, gpsdata, published, otherVars>>

\* simulator->gpsdata = device; a structure assignment, copied member by
\* member with no lock held; the snapshot is published when the last
\* member is copied
CopyField(f) ==
    /\ SerialRuns
    /\ serialPc = "publish"
    /\ f \in copying
    /\ gpsdata' = [gpsdata EXCEPT ![f] = FixTime(device)[f]]
    /\ copying' = copying \ {f}
    /\ published' = IF copying = {f} THEN published \cup {device} ELSE published
    /\ serialPc' = IF copying = {f} THEN "loop" ELSE "publish"
    /\ UNCHANGED <<mainVars, device, otherVars>>

(***************************************************************************)
(* The clock readings of the threaded tester (src/unnamed/part_003):       *)
(* const uint32_t start_us = MonotonicUs(); const uint32_t end_us =        *)
(* MonotonicUs(); timestamp += (end_us - start_us) / 2.                    *)
(***************************************************************************)
\* how far around a power of two the readings are taken
ClockSpan == 2

U32Bytes == 4

\* the conversion of the u_int64_t MonotonicUs returns to uint32_t
Truncate32(a) == SubSeq(U64(a), 1, U32Bytes)

\* end_us - start_us, both unsigned int: the difference modulo 2^32
U32Sub(a, b) == SubB(a, b, 0)

\* the difference of the two readings taken as 64-bit values
HalfRoundTripWidened(startUs, endUs) ==
    U64DivSmall(U64Sub(U64(Truncate32(endUs)), U64(Truncate32(startUs))), 2)

\* (end_us - start_us) / 2, widened to the type of timestamp
HalfRoundTrip32(startUs, endUs) ==
    U64(NatDivR(U32Sub(Truncate32(endUs), Truncate32(startUs)), 2, 0))

\* 2^bits as a uint64_t, bits a whole number of bytes
PowerOfTwo(bits) == U64Shl(U64(<<1>>), bits)

\* send times at 0 and around 2^32, 2^40 and 2^63, and the last ones
\* a u_int64_t holds
SendTimes ==
    LET near == {FromInt(k) : k \in 0 .. ClockSpan}
        at   == {PowerOfTwo(32), PowerOfTwo(40), U64Shl(U64(<<128>>), 56)}
    IN  {U64(d) : d \in near}
        \cup {U64Add(b, d) : b \in at, d \in near}
        \cup {U64Sub(b, d) : b \in at \cup {U64(<<>>)}, d \in near \ {<<>>}}

\* round trips below 2^32 microseconds: the shortest, the longest, and
\* those around 2^16 and 2^31
RoundTrips ==
    LET near == {FromInt(k) : k \in 0 .. ClockSpan}
        at   == {FromInt(65536), <<0, 0, 0, 128>>}
    IN  {U64(d) : d \in near}
        \cup {U64Add(b, d) : b \in at, d \in near}
        \cup {U64Sub(b, d) : b \in at \cup {PowerOfTwo(32)}, d \in near \ {<<>>}}

Clock32Inputs ==
    /\ sendTime \in SendTimes
    /\ roundTrip \in RoundTrips
    /\ correction = <<>>
    /\ ckPc = "call"

Clock32Idle ==
    /\ sendTime = <<>>
    /\ roundTrip = <<>>
    /\ correction = <<>>
    /\ ckPc = "idle"

\* lines 247-266: the two readings and the half round trip
ReadClocks ==
    /\ ckPc = "call"
    /\ correction' = HalfRoundTrip32(sendTime, U64Add(sendTime, roundTrip))
    /\ ckPc' = "done"
    /\ UNCHANGED <<sendTime, roundTrip>>
    /\ UNCHANGED <<timeVars, verifyVars, driverVars, codecVars, requestVars, gnssVars, reassemblyVars, parseVars, prnVars, pvtVars, frameVars>>

(***************************************************************************)
(* The receive loop of gps_serial_thread_ep (src/unnamed/part_002): the    *)
(* fragments read from the serial port are put together in msg_buf. The    *)
(* statement that reads the port is not in the file; rx_buf and ret are    *)
(* taken to hold the fragment read and its length.                         *)
(***************************************************************************)
\* the most fragments read in one run
MaxFragments == 3

\* unsigned char msg_buf[1024]; unsigned char rx_buf[1024];
MSG_BUF_SIZE == 1024

\* the bytes of a UBX frame that are not payload: expected_len + 8
UBX_FRAME_OVERHEAD == 8

\* the lengths a read can return; a fragment that begins a frame holds at
\* least the six bytes up to the length field
FragmentLengths == {2, 6, 8, 512, MSG_BUF_SIZE}
HeaderLength == 6

\* the payload lengths a frame can declare in rx_buf[4] | rx_buf[5] << 8
DeclaredLengths == {0, 2, 8, 1100}

ReassemblyStart ==
    /\ multi_fragment_offset = 0
    /\ packet_len = 0
    /\ expected_len = 0
    /\ frame = <<>>
    /\ lastCopy = [at |-> 0, len |-> 0]
    /\ parsed = <<>>
    /\ fragments = 0
    /\ publications = 0
    /\ gps_serial_thread_exit = FALSE
    /\ portClosed = FALSE
    /\ doneSignals = 0
    /\ mainPc = "run"
    /\ rxPc = "loop"

ReassemblyIdle ==
    /\ multi_fragment_offset = 0
    /\ packet_len = 0
    /\ expected_len = 0
    /\ frame = <<>>
    /\ lastCopy = [at |-> 0, len |-> 0]
    /\ parsed = <<>>
    /\ fragments = 0
    /\ publications = 0
    /\ gps_serial_thread_exit = FALSE
    /\ portClosed = FALSE
    /\ doneSignals = 0
    /\ mainPc = "idle"
    /\ rxPc = "idle"

\* lines 200-207: while (simulator->gps_serial_thread_exit == false) at
\* the end of an iteration; with the flag set the thread closes the
\* port, signals gps_serial_init_done and ends
LoopTest ==
    IF gps_serial_thread_exit
    THEN /\ rxPc' = "ended"
         /\ portClosed' = TRUE
         /\ doneSignals' = doneSignals + 1
    ELSE /\ rxPc' = "loop"
         /\ UNCHANGED <<portClosed, doneSignals>>

\* a frame of which more than its length has arrived
FrameCompleteOrMore(before, ret, declared) ==
    before + ret >= declared + UBX_FRAME_OVERHEAD

\* line 182: packet_len == expected_len + 8
FrameComplete(before, ret, declared) ==
    before + ret = declared + UBX_FRAME_OVERHEAD

\* lines 178-199: packet_len += ret; memcpy(&msg_buf[offset], &rx_buf, ret);
\* and, when packet_len == expected_len + 8, ubx_parse, memset of
\* msg_buf, the reset and simulator->gpsdata = device. The copy is
\* recorded with the place of its bytes in the frame, which is the
\* length received before it. A copy past msg_buf leaves the thread in
\* no defined state.
CopyFragment(offset, before, declared, ret, copied) ==
    LET copy == [at |-> offset, len |-> ret, from |-> before]
        full == FrameComplete(before, ret, declared)
    IN  /\ lastCopy' = [at |-> offset, len |-> ret]
        /\ fragments' = fragments + 1
        /\ expected_len' = declared
        /\ IF offset + ret > MSG_BUF_SIZE
             THEN /\ rxPc' = "overrun"
                  /\ frame' = Append(copied, copy)
                  /\ multi_fragment_offset' = offset
                  /\ packet_len' = before + ret
                  /\ UNCHANGED <<parsed, publications, portClosed, doneSignals>>
             ELSE /\ LoopTest
                  /\ parsed' = IF full THEN Append(copied, copy) ELSE parsed
                  /\ publications' = IF full THEN publications + 1 ELSE publications
                  /\ frame' = IF full THEN <<>> ELSE Append(copied, copy)
                  /\ multi_fragment_offset' = IF full THEN 0 ELSE offset
                  /\ packet_len' = IF full THEN 0 ELSE before + ret

\* lines 153-200, an iteration in which rx_buf begins with b5 62 (lines
\* 164-172): expected_len is read, multi_fragment_offset = 0,
\* packet_len = 0
SyncFragment ==
    /\ rxPc = "loop"
    /\ fragments < MaxFragments
    /\ \E ret \in FragmentLengths, declared \in DeclaredLengths :
         /\ ret >= HeaderLength
         /\ CopyFragment(0, 0, declared, ret, <<>>)
    /\ UNCHANGED <<gps_serial_thread_exit, mainPc>>
    /\ UNCHANGED <<timeVars, verifyVars, driverVars, codecVars, requestVars, gnssVars, clock32Vars, parseVars, prnVars, pvtVars, frameVars>>

\* the offset of a fragment that does not begin a frame, as the tail of
\* the frame so far
OffsetAfterFrame(offset, before, ret) == before

\* lines 173-177: multi_fragment_offset = multi_fragment_offset + ret
OffsetOfFragment(offset, before, ret) == offset + ret

\* lines 153-200, an iteration in which rx_buf does not begin with b5 62
ContinuationFragment ==
    /\ rxPc = "loop"
    /\ fragments < MaxFragments
    /\ \E ret \in FragmentLengths :
         CopyFragment(OffsetOfFragment(multi_fragment_offset, packet_len, ret),
                      packet_len, expected_len, ret, frame)
    /\ UNCHANGED <<gps_serial_thread_exit, mainPc>>
    /\ UNCHANGED <<timeVars, verifyVars, driverVars, codecVars, requestVars, gnssVars, clock32Vars, parseVars, prnVars, pvtVars, frameVars>>

\* lines 153-162 and 200: an iteration in which ioctl(FIONREAD) gives
\* avb == 0; the call does not wait for bytes
IdleIteration ==
    /\ rxPc = "loop"
    /\ LoopTest
    /\ UNCHANGED <<multi_fragment_offset, packet_len, expected_len, frame,
                   lastCopy, parsed, fragments, publications,
                   gps_serial_thread_exit, mainPc>>
    /\ UNCHANGED <<timeVars, verifyVars, driverVars, codecVars, requestVars, gnssVars, clock32Vars, parseVars, prnVars, pvtVars, frameVars>>

\* src/unnamed/part_003:293: simulator.gps_serial_thread_exit = true
MainSetsExit ==
    /\ mainPc = "run"
    /\ ~gps_serial_thread_exit
    /\ rxPc # "idle"
    /\ gps_serial_thread_exit' = TRUE
    /\ UNCHANGED <<multi_fragment_offset, packet_len, expected_len, frame,
                   lastCopy, parsed, fragments, publications, portClosed,
                   doneSignals, mainPc, rxPc>>
    /\ UNCHANGED <<timeVars, verifyVars, driverVars, codecVars, requestVars, gnssVars, clock32Vars, parseVars, prnVars, pvtVars, frameVars>>

\* src/unnamed/part_003:294: return 0 of main right after the flag is
\* set: the thread is not joined, the process ends and a thread still in
\* its loop ends with it
MainReturns ==
    /\ mainPc = "run"
    /\ gps_serial_thread_exit
    /\ mainPc' = "returned"
    /\ rxPc' = IF rxPc = "loop" THEN "killed" ELSE rxPc
    /\ UNCHANGED <<multi_fragment_offset, packet_len, expected_len, frame,
                   lastCopy, parsed, fragments, publications,
                   gps_serial_thread_exit, portClosed, doneSignals>>
    /\ UNCHANGED <<timeVars, verifyVars, driverVars, codecVars, requestVars, gnssVars, clock32Vars, parseVars, prnVars, pvtVars, frameVars>>

(***************************************************************************)
(* The option loop of main (src/cli/main.c:72-126, the same statements in  *)
(* src/unnamed/part_003:117-175): the arguments of --host, --nonce and     *)
(* --key are copied into blocks of the heap.                               *)
(***************************************************************************)
\* the most options on a command line
MaxOptions == 3

\* the arguments given with --host, --nonce and --key
HostNames == {"a.io", "roughtime.example.org"}
NonceTexts == {"QUFB", "AQEBAQEBAQEBAQEBAQEBAQEBAQEBAQEBAQEBAQEBAQE="}
KeyTexts == {"gD63hSj3ScS+wuOeGrubXlq35N1c5Lby/S+T7MNTjxo="}

OptionsGiven ==
    [opt : {"h"}, arg : HostNames] \cup [opt : {"n"}, arg : NonceTexts]
        \cup [opt : {"k"}, arg : KeyTexts]

CommandLines == UNION { [1 .. n -> OptionsGiven] : n \in 0 .. MaxOptions }

\* char *p = NULL
NullPtr == 0

ParseStart ==
    /\ cmdline \in CommandLines
    /\ optind = 1
    /\ heap = <<>>
    /\ hostnamePtr = NullPtr
    /\ noncePtr = NullPtr
    /\ publicKeyPtr = NullPtr
    /\ overflowed = FALSE
    /\ oPc = "parse"

ParseIdle ==
    /\ cmdline = <<>>
    /\ optind = 1
    /\ heap = <<>>
    /\ hostnamePtr = NullPtr
    /\ noncePtr = NullPtr
    /\ publicKeyPtr = NullPtr
    /\ overflowed = FALSE
    /\ oPc = "idle"

\* malloc(strlen(optarg) + 1): a new block, its bytes not yet written
Malloc(h, optarg) == Append(h, [size |-> Len(optarg) + 1, text |-> ""])

\* strcpy(dst, optarg) for dst # NULL: the string and its terminator go to
\* the block dst points to
Strcpy(h, dst, optarg) == [h EXCEPT ![dst].text = optarg]

\* whether strcpy(dst, optarg) writes past the block of dst
StrcpyOverflows(h, dst, optarg) == Len(optarg) + 1 > h[dst].size

\* the string a pointer points to
TextAt(ptr) == IF ptr = NullPtr THEN "NULL" ELSE heap[ptr].text

\* the option getopt_long returns
NextOption(o) ==
    /\ oPc = "parse"
    /\ optind <= Len(cmdline)
    /\ cmdline[optind].opt = o

\* case 'h': hostname = malloc(strlen(optarg) + 1);
\*           hostname = strcpy(hostname, optarg);
ParseHost ==
    /\ NextOption("h")
    /\ LET optarg == cmdline[optind].arg
            block == Len(heap) + 1
       IN  /\ heap' = Strcpy(Malloc(heap, optarg), block, optarg)
           /\ hostnamePtr' = block
    /\ optind' = optind + 1
    /\ UNCHANGED <<cmdline, noncePtr, publicKeyPtr, overflowed, oPc>>
    /\ UNCHANGED <<timeVars, verifyVars, driverVars, codecVars, requestVars, gnssVars, clock32Vars, reassemblyVars, prnVars, pvtVars, frameVars>>

\* case 'k': publicKey = malloc(strlen(optarg) + 1);
\*           publicKey = strcpy(publicKey, optarg);
ParseKey ==
    /\ NextOption("k")
    /\ LET optarg == cmdline[optind].arg
            block == Len(heap) + 1
       IN  /\ heap' = Strcpy(Malloc(heap, optarg), block, optarg)
           /\ publicKeyPtr' = block
    /\ optind' = optind + 1
    /\ UNCHANGED <<cmdline, hostnamePtr, noncePtr, overflowed, oPc>>
    /\ UNCHANGED <<timeVars, verifyVars, driverVars, codecVars, requestVars, gnssVars, clock32Vars, reassemblyVars, prnVars, pvtVars, frameVars>>

\* the block the string of --nonce is copied to
\* (line 101: nonce = strcpy(hostname, optarg))
NonceDestination(block) == hostnamePtr

\* case 'n': nonce = malloc(strlen(optarg) + 1);
\*           nonce = strcpy(hostname, optarg);
\* the block malloc returned is lost. With hostname == NULL the copy
\* writes to address 0 and the process is killed; a copy longer than the
\* block of hostname writes past it, which either goes unnoticed here or
\* kills the process.
ParseNonce ==
    /\ NextOption("n")
    /\ LET optarg == cmdline[optind].arg
            blocks == Malloc(heap, optarg)
            dst == NonceDestination(Len(blocks))
       IN  IF dst = NullPtr
           THEN /\ oPc' = "crash"
                /\ heap' = blocks
                /\ UNCHANGED <<noncePtr, overflowed>>
           ELSE /\ heap' = Strcpy(blocks, dst, optarg)
                /\ noncePtr' = dst
                /\ IF StrcpyOverflows(blocks, dst, optarg)
                   THEN /\ overflowed' = TRUE
                        /\ oPc' \in {"parse", "crash"}
                   ELSE UNCHANGED <<overflowed, oPc>>
    /\ optind' = optind + 1
    /\ UNCHANGED <<cmdline, hostnamePtr, publicKeyPtr>>
    /\ UNCHANGED <<timeVars, verifyVars, driverVars, codecVars, requestVars, gnssVars, clock32Vars, reassemblyVars, prnVars, pvtVars, frameVars>>

\* lines 78-80: getopt_long returns -1, the end of the options
ParseEnd ==
    /\ oPc = "parse"
    /\ optind > Len(cmdline)
    /\ oPc' = "done"
    /\ UNCHANGED <<cmdline, optind, heap, hostnamePtr, noncePtr, publicKeyPtr, overflowed>>
    /\ UNCHANGED <<timeVars, verifyVars, driverVars, codecVars, requestVars, gnssVars, clock32Vars, reassemblyVars, prnVars, pvtVars, frameVars>>

(***************************************************************************)
(* ubx_to_prn (src/unnamed/part_001:117-208): a u-blox PRN is turned into  *)
(* the constellation and the satellite number in it.                       *)
(***************************************************************************)
\* the largest PRN tried; the smallest is -1
MaxPrn == 256
PrnInputs == -1 .. MaxPrn

\* what ubx2_to_prn can return at line 207; the function is not in the
\* sources, 0 is its failure
Ubx2Results == {0, 1}

\* lines 124-125 and the return 0 branches
PrnFail == [gnssId |-> 0, svId |-> 0, call |-> FALSE]

\* BeiDou 33..64, as if numbered from 1
ubx_to_prn_BeiDouFromOne(prn) ==
    IF 1 > prn THEN PrnFail
    ELSE IF 32 >= prn THEN [gnssId |-> 0, svId |-> prn, call |-> TRUE]
    ELSE IF 64 >= prn THEN [gnssId |-> 3, svId |-> prn - 32, call |-> TRUE]
    ELSE IF 96 >= prn THEN [gnssId |-> 6, svId |-> prn - 64, call |-> TRUE]
    ELSE IF 120 > prn THEN PrnFail
    ELSE IF 158 >= prn THEN [gnssId |-> 1, svId |-> prn, call |-> TRUE]
    ELSE IF 163 >= prn THEN [gnssId |-> 3, svId |-> prn - 158, call |-> TRUE]
    ELSE IF 173 > prn THEN PrnFail
    ELSE IF 182 >= prn THEN [gnssId |-> 4, svId |-> prn - 172, call |-> TRUE]
    ELSE IF 193 > prn THEN PrnFail
    ELSE IF 199 >= prn THEN [gnssId |-> 5, svId |-> prn - 192, call |-> TRUE]
    ELSE IF 211 > prn THEN PrnFail
    ELSE IF 246 >= prn THEN [gnssId |-> 2, svId |-> prn - 210, call |-> TRUE]
    ELSE PrnFail

\* lines 121-208: *gnssId and *svId as set, and whether line 207 is
\* reached
ubx_to_prn(prn) ==
    IF 1 > prn THEN PrnFail
    ELSE IF 32 >= prn THEN [gnssId |-> 0, svId |-> prn, call |-> TRUE]
    ELSE IF 64 >= prn THEN [gnssId |-> 3, svId |-> prn - 27, call |-> TRUE]
    ELSE IF 96 >= prn THEN [gnssId |-> 6, svId |-> prn - 64, call |-> TRUE]
    ELSE IF 120 > prn THEN PrnFail
    ELSE IF 158 >= prn THEN [gnssId |-> 1, svId |-> prn, call |-> TRUE]
    ELSE IF 163 >= prn THEN [gnssId |-> 3, svId |-> prn - 158, call |-> TRUE]
    ELSE IF 173 > prn THEN PrnFail
    ELSE IF 182 >= prn THEN [gnssId |-> 4, svId |-> prn - 172, call |-> TRUE]
    ELSE IF 193 > prn THEN PrnFail
    ELSE IF 199 >= prn THEN [gnssId |-> 5, svId |-> prn - 192, call |-> TRUE]
    ELSE IF 211 > prn THEN PrnFail
    ELSE IF 246 >= prn THEN [gnssId |-> 2, svId |-> prn - 210, call |-> TRUE]
    ELSE PrnFail

PrnInputsStart ==
    /\ ubx_PRN \in PrnInputs
    /\ prnOut = [gnssId |-> 0, svId |-> 0, ret |-> 0]
    /\ prnPc = "call"

PrnIdle ==
    /\ ubx_PRN = 0
    /\ prnOut = [gnssId |-> 0, svId |-> 0, ret |-> 0]
    /\ prnPc = "idle"

\* the call of ubx_to_prn (as at line 1073); an accepted PRN returns what
\* ubx2_to_prn returns
ConvertPrn ==
    /\ prnPc = "call"
    /\ LET out == ubx_to_prn(ubx_PRN)
       IN  \E r \in Ubx2Results :
               prnOut' = [gnssId |-> out.gnssId, svId |-> out.svId,
                          ret |-> IF out.call THEN r ELSE 0]
    /\ prnPc' = "done"
    /\ UNCHANGED ubx_PRN
    /\ UNCHANGED <<timeVars, verifyVars, driverVars, codecVars, requestVars, gnssVars, clock32Vars, reassemblyVars, parseVars, pvtVars, frameVars>>

(***************************************************************************)
(* ubx_msg_nav_pvt (src/unnamed/part_001:462-553): the position, velocity  *)
(* and time message. Of the session the model keeps iTOW, fix.mode and     *)
(* fix.time; a gps_mask_t is the set of its flags.                         *)
(***************************************************************************)
\* the largest value of the valid byte (payload byte 11) tried
MaxValid == 15

\* the payload lengths tried: u-blox 6 and 7 send 84 bytes, 8 and 9 send 92
PvtLengths == {0, 83, 84, 92}
PVT_MIN_LEN == 84

NANOSECONDS_IN_SECOND == 1000000000

\* the payloads tried: the date and time of bytes 4..10 as the seconds
\* mkgmtime makes of them, the nanoseconds of bytes 16..19 (signed)
PvtPayloads ==
    [iTOW : {7}, valid : 0 .. MaxValid, fixType : {3}, seconds : {100, 200},
     nano : {-1, 0, 999}]

\* the fix times a session can hold before the call
FixTimes == {[tv_sec |-> 0, tv_nsec |-> 0], [tv_sec |-> 50, tv_nsec |-> 5]}

\* bit 0 (0x01) and bit 1 (0x02) of the valid byte
ValidDate(valid) == valid % 2 = 1
ValidTime(valid) == (valid \div 2) % 2 = 1

\* TS_NORM: the nanoseconds are brought into 0 .. 999999999
TS_NORM(ts) ==
    IF ts.tv_nsec >= NANOSECONDS_IN_SECOND
    THEN [tv_sec |-> ts.tv_sec + 1, tv_nsec |-> ts.tv_nsec - NANOSECONDS_IN_SECOND]
    ELSE IF ts.tv_nsec < 0
    THEN [tv_sec |-> ts.tv_sec - 1, tv_nsec |-> ts.tv_nsec + NANOSECONDS_IN_SECOND]
    ELSE ts

\* lines 499-502: the fix time the payload holds
PvtTime(payload) == TS_NORM([tv_sec |-> payload.seconds, tv_nsec |-> payload.nano])

\* the date flag alone
ValidDateOnly(valid) == valid % 2 = 1

\* line 489: (valid & UBX_NAV_PVT_VALID_DATE_TIME) == UBX_NAV_PVT_VALID_DATE_TIME,
\* with UBX_NAV_PVT_VALID_DATE_TIME = 0x01 | 0x02
ValidDateTime(valid) == valid % 4 = 3

\* lines 462-553: the session after the call and the mask returned
ubx_msg_nav_pvt(s, payload, len) ==
    IF PVT_MIN_LEN > len
    THEN [session |-> s, mask |-> {}]
    ELSE LET timed == ValidDateTime(payload.valid)
         IN  [session |->
                  [iTOW |-> payload.iTOW, mode |-> payload.fixType,
                   time |-> IF timed THEN PvtTime(payload) ELSE s.time],
              mask |->
                  (IF timed THEN {"TIME_SET", "NTPTIME_IS", "GOODTIME_IS"} ELSE {})
                  \cup {"LATLON_SET", "ALTITUDE_SET", "SPEED_SET", "TRACK_SET",
                        "HERR_SET", "SPEEDERR_SET", "VERR_SET"}]

PvtInputs ==
    /\ data_len \in PvtLengths
    /\ pvtBuf \in PvtPayloads
    /\ session \in [iTOW : {0}, mode : {0}, time : FixTimes]
    /\ sessionBefore = session
    /\ pvtMask = {}
    /\ pvtPc = "call"

PvtIdle ==
    /\ data_len = 0
    /\ pvtBuf = [iTOW |-> 0, valid |-> 0, fixType |-> 0, seconds |-> 0, nano |-> 0]
    /\ session = [iTOW |-> 0, mode |-> 0, time |-> [tv_sec |-> 0, tv_nsec |-> 0]]
    /\ sessionBefore = session
    /\ pvtMask = {}
    /\ pvtPc = "idle"

\* the call of ubx_msg_nav_pvt (from ubx_parse, line 1695)
NavPvt ==
    /\ pvtPc = "call"
    /\ LET after == ubx_msg_nav_pvt(session, pvtBuf, data_len)
       IN  /\ session' = after.session
           /\ pvtMask' = after.mask
    /\ pvtPc' = "done"
    /\ UNCHANGED <<data_len, pvtBuf, sessionBefore>>
    /\ UNCHANGED <<timeVars, verifyVars, driverVars, codecVars, requestVars, gnssVars, clock32Vars, reassemblyVars, parseVars, prnVars, frameVars>>

(***************************************************************************)
(* The bytes ubx_parse and the handlers it calls read from the buffer      *)
(* (src/unnamed/part_001:1653-1734 and the handlers of NAV-PVT, NAV-SAT,   *)
(* RXM-MEASX and RXM-RAWX). A handler gets &buf[UBX_PREFIX_LEN] and the    *)
(* declared payload length; the highest index read is counted in its       *)
(* payload, -1 when it reads nothing.                                      *)
(***************************************************************************)
\* the largest channel or measurement count tried below MAXCHANNELS
MaxChannels == 2

UBX_PREFIX_LEN == 6

\* the limit of the counts; gps.h, which defines it, is not in the
\* sources, the value is that of gpsd
MAXCHANNELS == 184

\* a count of one byte above MAXCHANNELS
TooManyChannels == 255

\* nothing read
NoRead == -1

FrameLengths == {0, 5, 6, 8, 14, 28, 42, 90, 98, 100}
FrameMessages == {"UBX_NAV_PVT", "UBX_NAV_SAT", "UBX_RXM_MEASX", "UBX_RXM_RAWX", "UBX_ACK_ACK"}
DeclaredPayloads == {0, 8, 16, 20, 32, 84, 92}
ChannelCounts == (0 .. MaxChannels) \cup {TooManyChannels}

Highest(a, b) == IF a >= b THEN a ELSE b

\* ubx_msg_nav_pvt, lines 475-551: bytes 0..71 of the payload, and
\* bytes 88..91 of a payload of 92 or more with the MAG bit
ReadsNavPvt(len, mag) ==
    IF 84 > len THEN NoRead
    ELSE IF 92 <= len /\ mag THEN 91
    ELSE 71

\* ubx_msg_nav_sat, lines 972-1000: for every channel its 12 bytes at
\* off = 8 + 12 * i are read up to off + 5, and the flags at off + 16
ReadsNavSat(len, ver, nchan) ==
    IF 8 > len THEN NoRead
    ELSE IF 1 # ver THEN 4
    ELSE IF nchan > MAXCHANNELS \/ nchan = 0 THEN 5
    ELSE 8 + 12 * (nchan - 1) + 16 + 3

\* ubx_msg_rxm_measx, lines 1196-1226: numMeas at byte 34, then for
\* every measurement off = 24 * i, read up to off + 60 .. off + 63
ReadsRxmMeasx(len, numMeas) ==
    IF 16 > len THEN NoRead
    ELSE IF numMeas > MAXCHANNELS \/ numMeas = 0 THEN 34
    ELSE Highest(34, 24 * (numMeas - 1) + 60 + 3)

\* ubx_msg_rxm_rawx, lines 1251-1303: the header up to byte 12, then for
\* every measurement off = 32 * i, read up to off + 45
ReadsRxmRawx(len, numMeas) ==
    IF 16 > len THEN NoRead
    ELSE IF numMeas > MAXCHANNELS \/ numMeas = 0 THEN 12
    ELSE 32 * (numMeas - 1) + 45

\* the handler of a message, lines 1673-1732
ReadsHandler(msg, len, ver, count, mag) ==
    CASE msg = "UBX_NAV_PVT" -> ReadsNavPvt(len, mag)
      [] msg = "UBX_NAV_SAT" -> ReadsNavSat(len, ver, count)
      [] msg = "UBX_RXM_MEASX" -> ReadsRxmMeasx(len, count)
      [] msg = "UBX_RXM_RAWX" -> ReadsRxmRawx(len, count)
      [] OTHER -> NoRead

\* ubx_parse, lines 1653-1734: nothing is read of a buffer shorter than
\* the prefix; else bytes 2..5 are read and the handler is given
\* &buf[UBX_PREFIX_LEN] and the length of bytes 4 and 5
ReadsUbxParse(len, msg, declared, ver, count, mag) ==
    IF UBX_PREFIX_LEN > len THEN NoRead
    ELSE LET inPayload == ReadsHandler(msg, declared, ver, count, mag)
         IN  IF inPayload = NoRead THEN 5
             ELSE Highest(5, UBX_PREFIX_LEN + inPayload)

FrameInputs ==
    /\ frameLen \in FrameLengths
    /\ frameMsg \in FrameMessages
    /\ frameDataLen \in DeclaredPayloads
    /\ frameCount \in ChannelCounts
    /\ frameVer \in {0, 1}
    /\ frameMag \in BOOLEAN
    /\ highestRead = NoRead
    /\ upPc = "call"

FrameIdle ==
    /\ frameLen = 0
    /\ frameMsg = "none"
    /\ frameDataLen = 0
    /\ frameCount = 0
    /\ frameVer = 0
    /\ frameMag = FALSE
    /\ highestRead = NoRead
    /\ upPc = "idle"

\* the call of ubx_parse (src/unnamed/part_002:186)
UbxParseReads ==
    /\ upPc = "call"
    /\ highestRead' = ReadsUbxParse(frameLen, frameMsg, frameDataLen, frameVer,
                                    frameCount, frameMag)
    /\ upPc' = "done"
    /\ UNCHANGED <<frameLen, frameMsg, frameDataLen, frameCount, frameVer, frameMag>>
    /\ UNCHANGED <<timeVars, verifyVars, driverVars, codecVars, requestVars, gnssVars, clock32Vars, reassemblyVars, parseVars, prnVars, pvtVars>>

(***************************************************************************)
(* Specifications.                                                         *)
(***************************************************************************)
InitTime == TimeInputs /\ VerifyIdle /\ DriverIdle /\ CodecIdle /\ RequestIdle /\ GnssIdle /\ Clock32Idle /\ ReassemblyIdle /\ ParseIdle /\ PrnIdle /\ PvtIdle /\ FrameIdle

NextTime == RoughtimeToEpoc

SpecTime == InitTime /\ [][NextTime]_vars

InitVerify == VerifyInputs /\ TimeIdle /\ DriverIdle /\ CodecIdle /\ RequestIdle /\ GnssIdle /\ Clock32Idle /\ ReassemblyIdle /\ ParseIdle /\ PrnIdle /\ PvtIdle /\ FrameIdle

NextVerify == ProcessResponse

SpecVerify == InitVerify /\ [][NextVerify]_vars

Init == DriverStart /\ TimeIdle /\ VerifyIdle /\ CodecIdle /\ RequestIdle /\ GnssIdle /\ Clock32Idle /\ ReassemblyIdle /\ ParseIdle /\ PrnIdle /\ PvtIdle /\ FrameIdle

Next ==
    \/ Usage
    \/ ArgumentsOk
    \/ KeyLengthError
    \/ DecodeKey
    \/ NonceLengthError
    \/ DecodeNonce
    \/ GenerateNonce
    \/ GenerateNonceFails
    \/ CreateRequest
    \/ MakeRequest
    \/ AwaitResponse
    \/ ResponseArrives
    \/ MakeRequestFails
    \/ RequestTimesOut
    \/ ResponseError
    \/ ExchangeVerified
    \/ OffsetTooLarge
    \/ LoopEnd
    \/ Error

Spec == Init /\ [][Next]_vars

\* the client with at most one exchange and a transport that keeps time:
\* while craggy_makeRequest waits the time passes, and the timeout ends
\* the wait (specification, section 5)
InitTimeout == Init /\ requested <= 1

SpecTimeout ==
    InitTimeout /\ [][Next]_vars /\ WF_vars(AwaitResponse) /\ WF_vars(RequestTimesOut)

InitCodec == CodecInputs /\ TimeIdle /\ VerifyIdle /\ DriverIdle /\ RequestIdle /\ GnssIdle /\ Clock32Idle /\ ReassemblyIdle /\ ParseIdle /\ PrnIdle /\ PvtIdle /\ FrameIdle

NextCodec == DecodeMessage

SpecCodec == InitCodec /\ [][NextCodec]_vars

InitRequest == RequestInputs /\ TimeIdle /\ VerifyIdle /\ DriverIdle /\ CodecIdle /\ GnssIdle /\ Clock32Idle /\ ReassemblyIdle /\ ParseIdle /\ PrnIdle /\ PvtIdle /\ FrameIdle

NextRequest == CreateRequestOnce \/ CreateRequestAgain

SpecRequest == InitRequest /\ [][NextRequest]_vars

InitGnss == GnssStart /\ TimeIdle /\ VerifyIdle /\ DriverIdle /\ CodecIdle /\ RequestIdle /\ Clock32Idle /\ ReassemblyIdle /\ ParseIdle /\ PrnIdle /\ PvtIdle /\ FrameIdle

NextGnss ==
    \/ GnssUsage
    \/ GnssCreateThread
    \/ MainWaits
    \/ SerialStarts
    \/ WaitSignalled
    \/ WaitUnsignalled
    \/ RtOpenFails
    \/ RtOpen
    \/ GnssKeyLengthError
    \/ GnssDecodeKey
    \/ GnssNonceLengthError
    \/ GnssNonceReady
    \/ GnssGenerateNonceFails
    \/ TimePulse
    \/ SigInt
    \/ GnssCreateRequest
    \/ BytesArrive
    \/ RtIngest
    \/ RtCreateRequest
    \/ GnssMakeRequest
    \/ GnssMakeRequestFails
    \/ GnssResponseError
    \/ GnssVerified
    \/ \E f \in TimeFields : ReadFix(f)
    \/ GnssStop
    \/ RtAgain
    \/ RtLoopEnd
    \/ GnssLoopEnd
    \/ GnssError
    \/ UbxParse
    \/ \E f \in TimeFields : CopyField(f)

SpecGnss == InitGnss /\ [][NextGnss]_vars

InitClock32 == Clock32Inputs /\ TimeIdle /\ VerifyIdle /\ DriverIdle /\ CodecIdle /\ RequestIdle /\ GnssIdle /\ ReassemblyIdle /\ ParseIdle /\ PrnIdle /\ PvtIdle /\ FrameIdle

NextClock32 == ReadClocks

SpecClock32 == InitClock32 /\ [][NextClock32]_vars

InitReassembly == ReassemblyStart /\ TimeIdle /\ VerifyIdle /\ DriverIdle /\ CodecIdle /\ RequestIdle /\ GnssIdle /\ Clock32Idle /\ ParseIdle /\ PrnIdle /\ PvtIdle /\ FrameIdle

NextReassembly ==
    \/ SyncFragment
    \/ ContinuationFragment
    \/ IdleIteration
    \/ MainSetsExit
    \/ MainReturns

SpecReassembly == InitReassembly /\ [][NextReassembly]_vars

\* the thread and main are both scheduled again and again
SpecSerialExit ==
    /\ InitReassembly
    /\ [][NextReassembly]_vars
    /\ WF_vars(SyncFragment \/ ContinuationFragment \/ IdleIteration)
    /\ WF_vars(MainSetsExit \/ MainReturns)

InitParse == ParseStart /\ TimeIdle /\ VerifyIdle /\ DriverIdle /\ CodecIdle /\ RequestIdle /\ GnssIdle /\ Clock32Idle /\ ReassemblyIdle /\ PrnIdle /\ PvtIdle /\ FrameIdle

NextParse ==
    \/ ParseHost
    \/ ParseKey
    \/ ParseNonce
    \/ ParseEnd

SpecParse == InitParse /\ [][NextParse]_vars

InitPrn == PrnInputsStart /\ TimeIdle /\ VerifyIdle /\ DriverIdle /\ CodecIdle /\ RequestIdle /\ GnssIdle /\ Clock32Idle /\ ReassemblyIdle /\ ParseIdle /\ PvtIdle /\ FrameIdle

NextPrn == ConvertPrn

SpecPrn == InitPrn /\ [][NextPrn]_vars

InitPvt == PvtInputs /\ TimeIdle /\ VerifyIdle /\ DriverIdle /\ CodecIdle /\ RequestIdle /\ GnssIdle /\ Clock32Idle /\ ReassemblyIdle /\ ParseIdle /\ PrnIdle /\ FrameIdle

NextPvt == NavPvt

SpecPvt == InitPvt /\ [][NextPvt]_vars

InitFrame == FrameInputs /\ TimeIdle /\ VerifyIdle /\ DriverIdle /\ CodecIdle /\ RequestIdle /\ GnssIdle /\ Clock32Idle /\ ReassemblyIdle /\ ParseIdle /\ PrnIdle /\ PvtIdle

NextFrame == UbxParseReads

SpecFrame == InitFrame /\ [][NextFrame]_vars

(***************************************************************************)
(* Properties of the timestamp converter.                                  *)
(***************************************************************************)
\* the test's timestamp 65312145749359830 and round trip 1000000
FixtureTime == <<214, 188, 232, 238, 12, 9, 232, 0>>
FixtureRtt == U64(FromInt(1000000))

\* floor((low 40 bits + floor(rtt / 2)) / 1000000), exact
SecondsOfDay(t, rtt) ==
    NatDivSmall(NatAdd(SubSeq(t, 1, 5), NatDivSmall(rtt, 2)),
                NUMBER_OF_MICROSECONDS_IN_SECOND)

\* C3: for every timestamp whose day count is at least 40587 and every
\* round trip, craggy_roughtimeToEpoc returns CraggyResultSuccess and
\* *outTime = (MJD - 40587) * 86400 + floor((low 40 bits + floor(rtt / 2))
\* / 1000000); the test's timestamp with rtt = 1000000 gives 1625585148.
C3_EpochSeconds ==
    tcPc = "done" =>
        /\ tcResult = CraggyResultSuccess
        /\ MjdOf(time) >= NUMBER_OF_JULIAN_DAYS_UNTIL_EPOCH =>
              Normalize(outTime) =
                NatAdd(NatMulSmall(FromInt(MjdOf(time)
                                           - NUMBER_OF_JULIAN_DAYS_UNTIL_EPOCH),
                                   86400),
                       SecondsOfDay(time, serverRoundTripUs))
        /\ (time = FixtureTime /\ serverRoundTripUs = FixtureRtt) =>
              Normalize(outTime) = FromInt(1625585148)

C3_Witness ==
    /\ tcPc = "done"
    /\ time = FixtureTime
    /\ serverRoundTripUs = FixtureRtt
    /\ outTime = U64(FromInt(1625585148))

\* MJD * 86400 * 1000000 + low 40 bits + floor(rtt / 2), exact: the epoch
\* microseconds of the timestamp plus 40587 * 86400 * 1000000
MicrosSinceMjdZero(t, rtt) ==
    NatAdd(NatMulSmall(NatMulSmall(FromInt(MjdOf(t)), 86400), 1000000),
           NatAdd(SubSeq(t, 1, 5), NatDivSmall(rtt, 2)))

EpochDayInSeconds == NatMulSmall(FromInt(NUMBER_OF_JULIAN_DAYS_UNTIL_EPOCH), 86400)

\* C4 as stated: the result is the epoch microseconds
\* (MJD - 40587) * 86400 * 1000000 + low 40 bits + floor(rtt / 2)
\* (40587 * 86400 * 1000000 is added on both sides).
C4_EpochMicros ==
    tcPc = "done" =>
        NatAdd(outTime, NatMulSmall(EpochDayInSeconds, 1000000))
            = MicrosSinceMjdZero(time, serverRoundTripUs)

\* C4 amended: the result is the epoch seconds, floor(E / 1000000) reduced
\* modulo 2^64, for E = (MJD - 40587) * 86400 * 1000000 + low 40 bits
\* + floor(rtt / 2) (40587 * 86400 is added on both sides).
C4_EpochSecondsOfMicros ==
    tcPc = "done" =>
        U64(NatAdd(outTime, EpochDayInSeconds))
            = U64(NatDivSmall(MicrosSinceMjdZero(time, serverRoundTripUs), 1000000))

C4_Witness ==
    /\ tcPc = "done"
    /\ MjdOf(time) = NUMBER_OF_JULIAN_DAYS_UNTIL_EPOCH + 1
    /\ SubSeq(time, 1, 5) = <<63, 66, 15, 0, 0>>
    /\ serverRoundTripUs = U64(FromInt(3))
    /\ outTime = U64(FromInt(86401))

\* C5: the conversion never wraps silently: either no intermediate result
\* leaves 0 .. 2^64-1 or the conversion does not return success.
C5_NoSilentWrap ==
    tcPc = "done" =>
        \/ ~roughtimeToEpocWraps(time, serverRoundTripUs)
        \/ tcResult # CraggyResultSuccess

(***************************************************************************)
(* Properties of the response validator.                                   *)
(***************************************************************************)
ServerCertificate == Certificate(RootKey, CertificateContext, DelegatedKey)

\* the correctly built single-leaf response for nonce n with times t
SingleLeafResponse(n, t) ==
    MakeResponse(ServerCertificate, DelegatedKey, ResponseContext,
                 0, <<>>, LeafHash(n), t.MIDP, t.RADI)

\* C6: the correctly built single-leaf response for nonce N verifies with
\* expected nonce N and returns its (MIDP, RADI); with any other expected
\* nonce it fails with a Merkle mismatch.
C6_NonceBinding ==
    vPc = "done" =>
        \A n \in Nonces, t \in TimeValues :
            vResponse = SingleLeafResponse(n, t) =>
                IF vNonce = n
                THEN vOut = [ok |-> TRUE, result |-> CraggyResultSuccess,
                             timestamp |-> t.MIDP, radius |-> t.RADI]
                ELSE vOut = VerifyError("MerklePathMismatch")

C6_Witness ==
    /\ vPc = "done"
    /\ vResponse = SingleLeafResponse(1, [MIDP |-> MidpointFar, RADI |-> 9])
    /\ vNonce = 2
    /\ vOut.result = "MerklePathMismatch"

FlipBit(x, k) == IF (x \div 2 ^ k) % 2 = 1 THEN x - 2 ^ k ELSE x + 2 ^ k

HashPool == {LeafHash(m) : m \in Nonces}

\* C7: for a response that passes Merkle verification, every change of the
\* nonce, of one bit of INDX, of one element of PATH or of ROOT makes
\* Merkle verification fail.
C7_LeafRootBinding ==
    (vPc = "done" /\ vResponse.wire = "ok" /\ MerklePathOk(vNonce, vResponse)) =>
        /\ \A n \in Nonces \ {vNonce} : ~MerklePathOk(n, vResponse)
        /\ \A k \in 0 .. MaxPath :
              ~MerklePathOk(vNonce, [vResponse EXCEPT !.INDX = FlipBit(@, k)])
        /\ \A i \in 1 .. Len(vResponse.PATH) :
              \A h \in HashPool \ {vResponse.PATH[i]} :
                  ~MerklePathOk(vNonce, [vResponse EXCEPT !.PATH[i] = h])
        /\ \A h \in HashPool \ {vResponse.SREP.ROOT} :
              ~MerklePathOk(vNonce, [vResponse EXCEPT !.SREP.ROOT = h])

\* C8: an accepted response carries a certificate signature by the root
\* key over DELE under the certificate context and a signature by the key
\* in DELE over SREP under the response context; a signature made under
\* the other context over the same bytes is rejected.
C8_ContextSeparation ==
    (vPc = "done" /\ vResponse.wire = "ok") =>
        /\ vOut.ok =>
              /\ vResponse.CERT.SIG =
                    Sign(RootKey, CertificateContext \o EncodeDELE(vResponse.CERT.DELE))
              /\ vResponse.SIG =
                    Sign(vResponse.CERT.DELE.PUBK,
                         ResponseContext \o EncodeSREP(vResponse.SREP))
        /\ vResponse.CERT.SIG =
              Sign(RootKey, ResponseContext \o EncodeDELE(vResponse.CERT.DELE))
           => vOut = VerifyError("InvalidCertificateSignature")
        /\ vResponse.SIG =
              Sign(vResponse.CERT.DELE.PUBK,
                   CertificateContext \o EncodeSREP(vResponse.SREP))
           => /\ ~vOut.ok
              /\ vResponse.CERT = ServerCertificate
                    => vOut = VerifyError("InvalidResponseSignature")

C8_Witness ==
    /\ vPc = "done"
    /\ vResponse.wire = "ok"
    /\ vResponse.CERT = ServerCertificate
    /\ vResponse.SIG =
          Sign(DelegatedKey, CertificateContext \o EncodeSREP(vResponse.SREP))
    /\ MerklePathOk(vNonce, vResponse)
    /\ vOut = VerifyError("InvalidResponseSignature")

(***************************************************************************)
(* Properties of the command-line client.                                  *)
(***************************************************************************)
AllChecksOk(n, r) ==
    /\ r.wire = "ok"
    /\ CertSignatureOk(RootKey, r)
    /\ ResponseSignatureOk(r)
    /\ MerklePathOk(n, r)

TimePrinted == \E i \in DOMAIN printed : printed[i].line = "Current time"

\* the exchange has handed responseBuf to craggy_processResponse
Processed ==
    /\ pc \in {"loop", "error", "exit"}
    /\ craggyResult \notin {"none", "RandomUnavailable", "TransportError", "Timeout"}

\* C1: a time is printed, and a timestamp or radius is stored, only for a
\* response that passed the certificate-signature, response-signature and
\* Merkle-path checks; when one of them fails, craggy_processResponse
\* reports an error, no timestamp is stored and no time is printed.
C1_NoTimeWithoutChecks ==
    /\ (TimePrinted \/ timestamp # <<>> \/ radius # 0)
          => AllChecksOk(nonceBytes, responseBuf)
    /\ (Processed /\ ~AllChecksOk(nonceBytes, responseBuf))
          => /\ craggyResult \in {"MalformedResponse", "InvalidCertificateSignature",
                                  "InvalidResponseSignature", "MerklePathMismatch"}
             /\ pc # "loop"
             /\ timestamp = <<>>
             /\ ~TimePrinted

C1_Witness ==
    /\ pc = "error"
    /\ craggyResult = "MerklePathMismatch"
    /\ CertSignatureOk(RootKey, responseBuf)
    /\ ResponseSignatureOk(responseBuf)
    /\ ~MerklePathOk(nonceBytes, responseBuf)
    /\ ~TimePrinted

\* C2: a response accepted by an earlier exchange of the run is not
\* accepted by a later exchange.
C2_NoReplay ==
    \A i, j \in DOMAIN accepted : i < j => accepted[i] # accepted[j]

(***************************************************************************)
(* Properties of the wire codec.                                           *)
(***************************************************************************)
\* tag a is below tag b as a 32-bit little-endian number
TagBelow(a, b) ==
    \E i \in 1 .. 4 : a[i] < b[i] /\ \A j \in i + 1 .. 4 : a[j] = b[j]

StrictlyAscending(es) ==
    \A i \in 1 .. Len(es) - 1 : TagBelow(es[i].tag, es[i + 1].tag)

FullLength == Len(EncodeMessage(entries, fault))

\* C9: a message whose tags are not strictly ascending (two tags out of
\* order, or a tag repeated) never decodes, and when its count and tables
\* are all there the error is the tag-order error.
C9_TagOrderRejected ==
    (cPc = "done" /\ ~StrictlyAscending(entries)) =>
        /\ decoded.err # "none"
        /\ (fault # "wrapping" /\ Len(buf) >= 8 * Len(entries))
              => decoded.err = "BadTagOrder"

C9_Witness ==
    /\ cPc = "done"
    /\ Len(entries) = 2
    /\ entries[1].tag = entries[2].tag
    /\ fault = "none"
    /\ Len(buf) = FullLength
    /\ decoded.err = "BadTagOrder"

\* a message as the encoder writes it: at least one entry, the tags
\* strictly ascending, the offset table intact
ValidMessage ==
    /\ Len(entries) >= 1
    /\ StrictlyAscending(entries)
    /\ fault = "none"

LastValueStart(es) == 8 * Len(es) + ValueStart(es, Len(es) - 1)

DeclaredCount == Read32(buf, 1)

DeclaredOffsets ==
    IF Len(buf) >= 4 /\ ~NatLess(FromInt(MaxTags + 1), DeclaredCount)
        THEN [i \in 1 .. ToInt(DeclaredCount) - 1 |-> Read32(buf, 4 * i + 1)]
        ELSE <<>>

\* the exact product of the declared count and the table bytes per entry
\* is more than the buffer holds
TableOverruns ==
    /\ Len(buf) >= 4
    /\ NatLess(FromInt(Len(buf)), NatMulSmall(DeclaredCount, 8))

OffsetsDecrease ==
    \E i \in 1 .. Len(DeclaredOffsets) - 1 :
        NatLess(DeclaredOffsets[i + 1], DeclaredOffsets[i])

OffsetsExceedBuffer ==
    \E i \in 1 .. Len(DeclaredOffsets) :
        NatLess(FromInt(Len(buf)), DeclaredOffsets[i])

\* C11: a buffer whose declared entry count times the table bytes per entry
\* (the exact product, no reduction modulo 2^32) exceeds the buffer length
\* is rejected as truncated or overflowing, and a buffer whose offsets
\* decrease or exceed the buffer length is rejected.
C11_CountAndOffsetsRejected ==
    cPc = "done" =>
        /\ TableOverruns => decoded.err \in {"IntegerOverflow", "TruncatedBuffer"}
        /\ (OffsetsDecrease \/ OffsetsExceedBuffer) => decoded.err # "none"

C11_Witness ==
    /\ cPc = "done"
    /\ fault = "wrapping"
    /\ Len(entries) = 2
    /\ StrictlyAscending(entries)
    /\ Len(buf) = FullLength
    /\ decoded.err = "IntegerOverflow"

\* the decoder also meets decreasing offsets and offsets past the buffer
C11_WitnessOffsets ==
    /\ cPc = "done"
    /\ fault = "decreasing"
    /\ StrictlyAscending(entries)
    /\ Len(buf) = FullLength
    /\ OffsetsDecrease
    /\ decoded.err = "OffsetOutOfRange"

(***************************************************************************)
(* Properties of the request builder.                                      *)
(***************************************************************************)
\* the value the decoded message d holds under tag t, <<"absent">> if none
ValueOf(d, t) ==
    IF \E i \in DOMAIN d.tags : d.tags[i] = t
        THEN d.values[CHOOSE i \in DOMAIN d.tags : d.tags[i] = t]
        ELSE <<"absent">>

BadLength ==
    \/ publicKeyLen # 0 /\ publicKeyLen # 32
    \/ nonceLen # 0 /\ nonceLen # 32

\* the run stopped at a configuration error
ConfigurationError ==
    /\ pc \in {"error", "exit"}
    /\ exchanges = 0
    /\ \E i \in DOMAIN printed :
          printed[i].line \in {"Public key length must be", "Nonce length must be"}

\* C13: with a key or a nonce that does not decode to exactly 32 bytes no
\* request is created, craggy_makeRequest is not called and the process
\* ends with a status other than 0; a key and a nonce of exactly 32 bytes
\* do not stop the run.
C13_LengthsEnforced ==
    /\ (pc # "idle" /\ BadLength) =>
          /\ exchanges = 0 /\ sends = 0 /\ requestBuf = 0
          /\ pc \notin {"loop", "send", "await", "process"}
          /\ pc = "exit" => exitStatus # 0
    /\ ConfigurationError => BadLength

C13_Witness ==
    /\ pc = "exit"
    /\ publicKeyLen = 32
    /\ hostname = "host"
    /\ nonceLen = 33
    /\ ConfigurationError
    /\ sends = 0
    /\ exitStatus = 1

\* the distance between two uint64_t values, as a number
AbsDifference(a, b) == IF NatLess(a, b) THEN U64Sub(b, a) ELSE U64Sub(a, b)

\* the estimate and the realtime clock are more than 600000000
\* microseconds apart
TenMinutesApart ==
    NatLess(FromInt(600000000), AbsDifference(timestamp, realtime))

\* a verified exchange has read the realtime clock
OffsetChecked == realtime # <<>>

\* C16: after a verified exchange the run is stopped, and the process
\* ends with a status other than 0, exactly when the estimate and the
\* realtime clock are more than ten minutes apart; at ten minutes or less
\* the run goes on.
C16_StopsIffOffsetExceeds ==
    OffsetChecked =>
        /\ pc = "error" => TenMinutesApart
        /\ pc = "loop" => ~TenMinutesApart
        /\ (pc = "exit" /\ exitStatus # 0) => TenMinutesApart

\* the steps an exchange can take
ExchangeSteps ==
    { <<"Idle", "Requesting">>, <<"Requesting", "AwaitingResponse">>,
      <<"AwaitingResponse", "Verified">>, <<"AwaitingResponse", "Failed">>,
      <<"Verified", "Requesting">> }

\* the exchanges that have ended
Ended == Len(accepted) + (IF exchange = "Failed" THEN 1 ELSE 0)

\* C17: an exchange goes Idle, Requesting, AwaitingResponse and then
\* Verified or Failed; a transport, decode or verification error leaves it
\* Failed, after which nothing is sent and the state stays; an exchange
\* sends once, and at most one request is outstanding.
C17_ExchangeStateMachine ==
    /\ [][exchange' # exchange => <<exchange, exchange'>> \in ExchangeSteps]_vars
    /\ [][exchange = "Failed" => exchange' = "Failed" /\ sends' = sends]_vars
    /\ [](sends <= exchanges)
    /\ [](sends - Ended \in {0, 1})
    /\ []((pc = "error" /\ craggyResult \in
              {"TransportError", "Timeout", "MalformedResponse",
               "InvalidCertificateSignature", "InvalidResponseSignature",
               "MerklePathMismatch"}) => exchange = "Failed")

C17_Witness ==
    /\ pc = "exit"
    /\ exchange = "Failed"
    /\ craggyResult = "TransportError"
    /\ exchanges = 2
    /\ sends = 2
    /\ Len(accepted) = 1

NothingFailed ==
    /\ hostname # "NULL"
    /\ publicKeyLen = 32
    /\ nonceLen \in {0, 32}
    /\ craggyResult # "RandomUnavailable"
    /\ exchange # "Failed"
    /\ OffsetChecked => ~TenMinutesApart

\* C19: a run asked for N >= 1 exchanges in which nothing fails ends
\* after exactly N exchanges.
C19_ExactlyNExchanges ==
    (pc = "exit" /\ requested >= 1 /\ NothingFailed) =>
        exchanges = requested /\ Len(accepted) = requested

\* C24: when craggy_generateNonce fails no request is built and nothing
\* is sent, neither with the bytes nonceBytes was filled with before the
\* call nor with any other nonce, and the process ends with an error.
C24_NonceFailureIsFatal ==
    craggyResult = "RandomUnavailable" =>
        /\ pc \in {"error", "exit"}
        /\ exchanges = 0 /\ sends = 0 /\ requestBuf = 0
        /\ exchange = "Idle"
        /\ pc = "exit" => exitStatus # 0

C24_Witness ==
    /\ pc = "exit"
    /\ craggyResult = "RandomUnavailable"
    /\ nonceLen = 0
    /\ nonceBytes = 0
    /\ exchanges = 0
    /\ exitStatus = 1

\* C25: every START marker is followed by a STOP marker before the next
\* START and before the process ends, also when the exchange ends in an
\* error.
C25_StartThenStop ==
    pc \in {"loop", "exit"} =>
        \A i \in DOMAIN printed :
            printed[i].line = "START" =>
                \E j \in DOMAIN printed : j > i /\ printed[j].line = "STOP"

\* the MIDP of the response verified last
ServerTimestamp == accepted[Len(accepted)].SREP.MIDP

\* C26: start_us is read after the request is built and before
\* craggy_makeRequest is called, end_us only after craggy_processResponse
\* succeeded, and the time reported is the server's timestamp plus
\* floor((end_us - start_us) / 2), never less than the server's timestamp.
C26_HalfRoundTripAdded ==
    /\ pc = "send" => (requestBuf # 0 /\ start_us # <<>> /\ end_us = <<>>)
    /\ pc \in {"await", "process"} => end_us = <<>>
    /\ end_us # <<>> =>
          /\ exchange = "Verified"
          /\ craggyResult = CraggyResultSuccess
          /\ ~NatLess(end_us, start_us)
          /\ LET half == NatDivSmall(U64Sub(end_us, start_us), 2)
                 sum  == NatAdd(ServerTimestamp, half)
             IN  /\ ~Exceeds64(sum)
                 /\ timestamp = U64(sum)
          /\ ~NatLess(timestamp, ServerTimestamp)

\* C37: the exit status of the client tells success from failure: it is 0
\* when every exchange asked for was verified within the threshold, that
\* is, when the loop has counted repeats down to 0, and it is not 0 only
\* after a configuration, transport, verification or offset error.
C37_ExitStatusSeparates ==
    pc = "exit" =>
        (exitStatus = 0 <=> (repeats = 0 /\ requested % Uint8Values >= 1))

(***************************************************************************)
(* Properties of the GNSS clients.                                         *)
(***************************************************************************)
\* C14: a GNSS client that stopped at a bad key length, a bad nonce
\* length, a transport error or a verification error returns a status
\* other than 0.
C14_GnssFailureExitsNonZero ==
    (gPc = "exit" /\ message \in FailureMessages) => gExit # 0

\* the command-line client printed the usage text
CliUsagePrinted ==
    \E i \in DOMAIN printed : printed[i].line = "usage"

\* C15: the usage text is printed, with status 1 and before anything else
\* is done, exactly when a required option is missing: --host or --key
\* in the command-line client, --host, --key or --gpsport in the GNSS
\* clients; with all of them given the program goes past the validation.
C15_UsageIffOptionMissing ==
    /\ pc \notin {"idle", "args"} =>
          /\ CliUsagePrinted <=> (hostname = "NULL" \/ publicKeyLen = 0)
          /\ CliUsagePrinted => (pc = "exit" /\ exitStatus = 1 /\ exchanges = 0)
    /\ gPc \notin {"idle", "args"} =>
          /\ message = "usage: roughtimetester" <=>
                (gHostname = "NULL" \/ gPublicKeyLen = 0 \/ gpsPortOpt = "NULL")
          /\ message = "usage: roughtimetester" =>
                (gPc = "exit" /\ gExit = 1 /\ serialPc = "off" /\ gSends = 0)

\* C20: the fix time main has read, seconds and nanoseconds, is the time
\* of one fix that was assigned to simulator.gpsdata, never the seconds
\* of one fix with the nanoseconds of another.
C20_FixFromOneSnapshot ==
    (gPc = "fix" /\ reading = {}) =>
        \E n \in published : fix = FixTime(n)

\* C21: the exchange loop never waits for the receiver: whenever an
\* exchange remains to be made main can begin it with the GNSS state that
\* is published at that moment, whether or not a new frame or flag has
\* arrived.
C21_LoopNeverWaitsForGnss ==
    /\ (program = Threaded /\ gPc = "loop" /\ gRepeats > 0) =>
          ENABLED GnssCreateRequest
    /\ (program = Roughtest /\ gPc = "poll") => ENABLED RtIngest

\* where the flow that takes in the GNSS bytes stands: main in roughtest,
\* the serial thread in the testers
IngestingFlowAt == IF program = Roughtest THEN gPc ELSE serialPc

\* C22: the flow that takes in the GNSS bytes never waits for the
\* network: it is never inside craggy_makeRequest.
C22_IngestionNeverAwaitsNetwork ==
    gPc # "idle" => IngestingFlowAt # "await"

\* C23: once SIGINT has set the stop flag the loop of main begins no
\* further exchange at its next test and ends, and the handler changes
\* nothing but the flag.
C23_StopFlagObserved ==
    /\ [][(run = -1 /\ gPc \in {"loop", "next"}) =>
             gPc' \in {"loop", "next", "exit"}]_vars
    /\ [][run' # run =>
             UNCHANGED <<gPc, gNonceBytes, gCraggyResult, gSends, gRepeats,
                         serialVars, fix, reading>>]_vars

\* C28: main logs that the GPS thread has started only after the thread
\* has set gps_serial_thread_running, and main never waits for a signal
\* the thread has sent already.
C28_StartupSignalNotLost ==
    /\ startLog = "Started External GPS thread" => gps_serial_thread_running
    /\ ~(gPc = "wait" /\ gps_serial_thread_running)

(***************************************************************************)
(* Properties of the clock readings of the threaded tester.                *)
(***************************************************************************)
\* C27: with the two readings of the monotonic clock stored in uint32_t
\* variables, what is added to the timestamp is floor(elapsed / 2) for
\* every 64-bit send time and every elapsed time below 2^32 microseconds,
\* also when the low 32 bits of the clock wrap between the two readings.
C27_HalfRoundTrip32 ==
    ckPc = "done" => correction = U64(NatDivSmall(roundTrip, 2))

\* the low 32 bits of the clock wrapped between the two readings
C27_Witness ==
    /\ ckPc = "done"
    /\ NatLess(Truncate32(U64Add(sendTime, roundTrip)), Truncate32(sendTime))
    /\ roundTrip = U64(<<255, 255, 255, 255>>)
    /\ correction = U64(<<255, 255, 255, 127>>)

(***************************************************************************)
(* Properties of the receive loop of the serial thread.                    *)
(***************************************************************************)
\* C29: a frame that arrives in several fragments is put together
\* without gaps: every fragment is copied to the offset that equals the
\* length of the fragments before it, so the buffer handed to ubx_parse
\* holds the bytes of the frame in their order.
C29_FragmentsContiguous ==
    (parsed # <<>> /\ parsed[1].at = 0 /\ parsed[1].len >= HeaderLength) =>
        \A k \in DOMAIN parsed : parsed[k].at = parsed[k].from

\* C30: every copy into msg_buf stays inside its 1024 bytes, whatever
\* the fragments are.
C30_CopyInsideBuffer ==
    lastCopy.at + lastCopy.len <= MSG_BUF_SIZE

C32_ThreadEndsAfterExit ==
    gps_serial_thread_exit ~> (rxPc = "ended" /\ portClosed /\ doneSignals = 1)

(***************************************************************************)
(* Properties of the option loop.                                          *)
(***************************************************************************)
\* the argument of the last option o on the command line
LastArg(o) ==
    LET at == { i \in DOMAIN cmdline : cmdline[i].opt = o }
    IN  cmdline[CHOOSE i \in at : \A j \in at : j <= i].arg

Given(o) == \E i \in DOMAIN cmdline : cmdline[i].opt = o

\* C36: parsing --nonce changes only the stored nonce: after the options
\* are parsed the hostname holds the argument of --host and the nonce
\* holds the argument of --nonce, in whatever order the two were given.
C36_NonceLeavesHostname ==
    oPc = "done" =>
        /\ Given("h") => TextAt(hostnamePtr) = LastArg("h")
        /\ Given("n") => TextAt(noncePtr) = LastArg("n")

(***************************************************************************)
(* Properties of ubx_to_prn.                                               *)
(***************************************************************************)
\* the PRN ranges of the constellations: the gnssId and the svId of the
\* first PRN of the range
PrnRanges ==
    { [lo |-> 1, hi |-> 32, gnssId |-> 0, first |-> 1],
      [lo |-> 33, hi |-> 64, gnssId |-> 3, first |-> 6],
      [lo |-> 65, hi |-> 96, gnssId |-> 6, first |-> 1],
      [lo |-> 120, hi |-> 158, gnssId |-> 1, first |-> 120],
      [lo |-> 159, hi |-> 163, gnssId |-> 3, first |-> 1],
      [lo |-> 173, hi |-> 182, gnssId |-> 4, first |-> 1],
      [lo |-> 193, hi |-> 199, gnssId |-> 5, first |-> 1],
      [lo |-> 211, hi |-> 246, gnssId |-> 2, first |-> 1] }

RangeOf(prn) == { r \in PrnRanges : r.lo <= prn /\ prn <= r.hi }

C34_TimeOnlyWhenValid ==
    pvtPc = "done" =>
        /\ data_len < 84 => (pvtMask = {} /\ session = sessionBefore)
        /\ data_len >= 84 =>
               LET both == ValidDate(pvtBuf.valid) /\ ValidTime(pvtBuf.valid)
               IN  /\ "TIME_SET" \in pvtMask <=> both
                   /\ both => session.time = PvtTime(pvtBuf)
                   /\ ~both => session.time = sessionBefore.time

C34_Witness ==
    /\ pvtPc = "done"
    /\ data_len = 84
    /\ ValidDate(pvtBuf.valid) /\ ~ValidTime(pvtBuf.valid)
    /\ session.time = sessionBefore.time
    /\ session.time # PvtTime(pvtBuf)
    /\ session.iTOW # sessionBefore.iTOW

(***************************************************************************)
(* Properties of the reads of ubx_parse.                                   *)
(***************************************************************************)
\* C33: for a buffer of len >= 6 bytes and every message id, every index
\* of the buffer that ubx_parse or the handler it calls reads is below
\* len, whatever payload length and whatever channel or measurement
\* count the buffer declares.
C33_ReadsInsideBuffer ==
    (upPc = "done" /\ frameLen >= 6) => highestRead < frameLen
====
